---- MODULE Spec2Model ----
(***************************************************************************)
(* Model of the passport-sqrl protocol engine (SQRLExpress in              *)
(* src/passport-sqrl/index.ts) running against the demo site's identity    *)
(* storage and poll endpoint (TestSiteHandler in                           *)
(* src/testSite/TestSiteHandler.ts).                                       *)
(*                                                                         *)
(* Every SQRL API call and every /pollNut call is an asynchronous unit of  *)
(* work: the JavaScript between two awaited NeDB operations runs without   *)
(* interruption, so one action of the model is one NeDB operation together *)
(* with the continuation that runs when its promise resolves.              *)
(***************************************************************************)
EXTENDS Integers, Sequences, FiniteSets, TLC

\* ---------------------------------------------------------------- bounds
MaxNuts == 4      \* nuts that may be minted by /login and by started API calls
MaxKey == 2       \* identity public keys are 1..MaxKey
MaxReq == 2       \* SQRL API calls that can be in flight at the same time
MaxPoll == 1      \* /pollNut calls that can be in flight at the same time

None == 0         \* undefined / null / absent
Keys == 1..MaxKey
Req == 1..MaxReq
Poll == 1..MaxPoll
Commands == {"query", "ident", "disable", "enable", "remove"}
ClientCmds == Commands \cup {"bogus"}
Versions == {1, 2}

\* ---------------------------------------------------------------- TIF flags
CurrentIDMatch == 1
PreviousIDMatch == 2
TransientError == 32
CommandFailed == 64
ClientFailure == 128

\* t & f # 0 for a single-bit flag f
HasFlag(t, f) == (t \div f) % 2 = 1
\* t | f for a single-bit flag f
OrFlag(t, f) == IF HasFlag(t, f) THEN t ELSE t + f

\* The nut generator draws 128 random bits (generateRandomNut): every drawn
\* value is taken to be new. The nuts drawn for registration
\* (by /login and by the calls whose presented nut is found) are 1, 2, ... in
\* the order they are drawn. UnregisteredNut stands for every other value: the
\* strings the server never minted, the nuts drawn for error replies and the
\* nuts drawn by calls that throw before registering them.
UnregisteredNut == 0 - 1

VARIABLES
  nutTable,    \* TestSiteHandler.nutTable: nut -> NutDBRecord
  userTable,   \* TestSiteHandler.userTable: UserDBRecords in _id order
  nutCtr,      \* number of nuts drawn for registration so far
  req,         \* the SQRL API calls in flight: program counter and locals
  poll,        \* the /pollNut calls in flight: program counter and locals
  parent,      \* history: nut -> the nut presented by the call that minted it
  hist,        \* history of the calls answered so far
  http         \* the HTTP exchange under study: request parameters, reply body

vars == <<nutTable, userTable, nutCtr, req, poll, parent, hist, http>>

\* ---------------------------------------------------------------- records
\* class NutDBRecord extends NutInfo
NutDBRecord(nut, originalLoginNut) ==
  [nut |-> nut, originalLoginNut |-> originalLoginNut,
   loggedIn |-> FALSE, clientPrimaryIdentityPublicKey |-> None]

\* findOneAsync found nothing
NoNut == NutDBRecord(None, None)

NoUser == [sqrlPrimaryIdentityPublicKey |-> None,
           sqrlPreviousIdentityPublicKeys |-> << >>]

\* UserDBRecord.newFromClientRequestInfo
newFromClientRequestInfo(idk, pidk) ==
  [sqrlPrimaryIdentityPublicKey |-> idk,
   sqrlPreviousIdentityPublicKeys |-> IF pidk # None THEN <<pidk>> ELSE << >>]

\* AuthCompletionInfo.user is a user document, absent, or (after updateAsync)
\* the number of documents NeDB replaced.
UserAbsent == [kind |-> "none", doc |-> NoUser, num |-> 0]
UserDoc(d) == [kind |-> "doc", doc |-> d, num |-> 0]
UserNum(n) == [kind |-> "num", doc |-> NoUser, num |-> n]

\* (<UserDBRecord> authInfo.user).sqrlPrimaryIdentityPublicKey
PrimaryKeyOf(u) ==
  IF u.kind = "doc" THEN u.doc.sqrlPrimaryIdentityPublicKey ELSE None

IdleReq ==
  [pc |-> "idle", cmd |-> "query", ver |-> 1, nut |-> None, idk |-> None,
   pidk |-> None, nextNut |-> None, nutInfo |-> NoNut, user |-> UserAbsent,
   tif |-> 0, origRec |-> NoNut, status |-> 0, err |-> "", minted |-> 0,
   issued |-> None, cmdCalled |-> "none", validCmd |-> FALSE, known |-> FALSE,
   reuse |-> FALSE, partnerOK |-> FALSE, lookedUp |-> FALSE]

\* seen: what the poll found of the nut record ("none", "new", "loggedIn");
\* phase: where the polled nut's conversation stood when the poll arrived
IdlePoll ==
  [pc |-> "idle", key |-> None, seen |-> "", result |-> "", phase |-> ""]

\* ---------------------------------------------------------------- NeDB
\* nutTable.findOneAsync({ nut: nut })
getNutRecord(nut) ==
  IF nut \in DOMAIN nutTable THEN nutTable[nut] ELSE NoNut

\* userTable.findOne with { $or: [{primary: k} for k in keys] }: the first
\* matching document in _id order, 0 when none matches.
FindIndex(keys) ==
  LET hits == {i \in 1..Len(userTable) :
                 userTable[i].sqrlPrimaryIdentityPublicKey \in keys}
  IN IF hits = {} THEN 0 ELSE CHOOSE i \in hits : \A j \in hits : i <= j

FindDoc(keys) ==
  IF FindIndex(keys) = 0 THEN NoUser ELSE userTable[FindIndex(keys)]

\* NeDB gives every inserted document a random _id and scans in _id order:
\* the new document can land at any position.
InsertAt(s, i, d) ==
  [j \in 1..(Len(s) + 1) |-> IF j < i THEN s[j] ELSE IF j = i THEN d ELSE s[j - 1]]

\* ---------------------------------------------------------------- history
\* the origin nut (the nut of the /login page) of the conversation of nut n
RECURSIVE Root(_)
Root(n) == IF n \notin DOMAIN parent \/ parent[n] = None THEN n ELSE Root(parent[n])

\* no HTTP exchange is singled out
NoExchange == [pc |-> "none"]

NoHist == [consumed |-> {}, queryDone |-> {}, identDone |-> {}, crossDone |-> {}]

Init ==
  /\ nutTable = << >>
  /\ userTable = << >>
  /\ nutCtr = 0
  /\ req = [r \in Req |-> IdleReq]
  /\ poll = [p \in Poll |-> IdlePoll]
  /\ parent = << >>
  /\ hist = NoHist
  /\ http = NoExchange

\* GET /login: getSqrlUrl mints the origin nut, nutIssuedToClientAsync stores
\* it without an originalLoginNut, then the page is rendered.
LoginPage ==
  /\ nutCtr < MaxNuts
  /\ nutCtr' = nutCtr + 1
  /\ nutTable' = ((nutCtr + 1) :> NutDBRecord(nutCtr + 1, None)) @@ nutTable
  /\ parent' = ((nutCtr + 1) :> None) @@ parent
  /\ UNCHANGED <<userTable, req, poll, http, hist>>

\* ---------------------------------------------------------------- SQRL API
InFlight(rq) == rq.pc \notin {"idle", "reply"}

\* The request and the locals of authenticateAsync are out of scope once
\* handleSqrlApi composes the reply.
OutOfScope(rq) ==
  [rq EXCEPT !.cmd = IdleReq.cmd, !.nut = None, !.idk = None, !.pidk = None,
             !.nutInfo = NoNut, !.user = UserAbsent, !.origRec = NoNut]

\* Reply200 with a nut drawn for the reply, as the catch-branch draws one
Reply200FreshNut(rq) ==
  [OutOfScope(rq) EXCEPT !.pc = "reply", !.status = 200, !.nextNut = UnregisteredNut]

\* authenticateAsync of call r has returned: the then-branch of handleSqrlApi
\* sends the reply with the nut registered for the call and HTTP 200.
Reply200(rq) ==
  [OutOfScope(rq) EXCEPT !.pc = "reply", !.status = 200]

\* ErrorReply taking the status of a ClientInputError for an error that
\* carries no status
ErrorReplyClientError(rq, msg, httpStatusCode) ==
  [OutOfScope(rq) EXCEPT
     !.pc = "reply", !.err = msg,
     !.status = IF httpStatusCode # None THEN httpStatusCode ELSE 400,
     !.nextNut = UnregisteredNut, !.minted = @ + 1,
     !.tif = CommandFailed + TransientError]

\* authenticateAsync of call r has thrown: the catch-branch of handleSqrlApi
\* draws a further nut for the error reply, which is not registered; tif is
\* CommandFailed|TransientError, the status err.httpStatusCode || 500.
ErrorReply(rq, msg, httpStatusCode) ==
  [OutOfScope(rq) EXCEPT
     !.pc = "reply", !.err = msg,
     !.status = IF httpStatusCode # None THEN httpStatusCode ELSE 500,
     !.nextNut = UnregisteredNut, !.minted = @ + 1,
     !.tif = CommandFailed + TransientError]

\* the history once the call with request rq has been answered with HTTP 200
Completed(rq) ==
  LET o == Root(rq.nut) IN
  [consumed |-> hist.consumed \cup {rq.nut},
   queryDone |-> IF rq.cmd = "query" THEN hist.queryDone \cup {o} ELSE hist.queryDone,
   identDone |-> IF rq.cmd = "ident" THEN hist.identDone \cup {o} ELSE hist.identDone,
   crossDone |-> IF rq.cmd = "ident" /\ o \in hist.queryDone
                 THEN hist.crossDone \cup {o} ELSE hist.crossDone]

\* call r goes on to its next awaited operation
Continue(r, rq) ==
  /\ req' = [req EXCEPT ![r] = rq]
  /\ UNCHANGED <<nutCtr, hist>>

\* authenticateAsync of call r returns, and the reply is sent
Finish(r, rq) ==
  /\ req' = [x \in Req |->
              IF x = r THEN Reply200(rq)
              ELSE IF InFlight(req[x]) /\ req[x].nut = rq.nut
                   THEN [req[x] EXCEPT !.partnerOK = TRUE]
                   ELSE req[x]]
  /\ hist' = Completed(rq)
  /\ UNCHANGED nutCtr

\* authenticateAsync of call r throws a ClientInputError (httpStatusCode 400),
\* and the error reply is sent
Throw(r, rq, msg) ==
  /\ req' = [req EXCEPT ![r] = ErrorReply(rq, msg, 400)]
  /\ UNCHANGED <<nutCtr, hist>>

\* ReqStart without the check of the awaited nutInfo
ReqStartNoCheck(r, cmd, ver, nut, idk, pidk) ==
  /\ req[r].pc = "idle"
  /\ \A x \in Req : x < r => InFlight(req[x])
  /\ nutCtr < MaxNuts
  /\ LET rq == [IdleReq EXCEPT !.cmd = cmd, !.ver = ver, !.nut = nut,
                               !.idk = idk, !.pidk = pidk,
                               !.validCmd = cmd \in Commands,
                               !.reuse = nut \in hist.consumed,
                               !.lookedUp = (ver = 1),
                               !.known = nut \in DOMAIN nutTable]
     IN IF ver # 1
        THEN Throw(r, rq, "This server only handles SQRL protocol revision 1")
        ELSE /\ req' = [req EXCEPT ![r] =
                         [rq EXCEPT !.pc = "nutIssued", !.nextNut = nutCtr + 1,
                                    !.minted = 1, !.nutInfo = getNutRecord(nut)]]
             /\ nutCtr' = nutCtr + 1
             /\ UNCHANGED hist
  /\ UNCHANGED <<nutTable, userTable, poll, http, parent>>

\* ReqStart looking the nut up, and examining the result, before the version
\* check
ReqStartLookupFirst(r, cmd, ver, nut, idk, pidk) ==
  /\ req[r].pc = "idle"
  /\ \A x \in Req : x < r => InFlight(req[x])
  /\ nutCtr < MaxNuts
  /\ LET rq == [IdleReq EXCEPT !.cmd = cmd, !.ver = ver, !.nut = nut,
                               !.idk = idk, !.pidk = pidk,
                               !.validCmd = cmd \in Commands,
                               !.reuse = nut \in hist.consumed,
                               !.lookedUp = TRUE,
                               !.known = nut \in DOMAIN nutTable]
         nutInfo == getNutRecord(nut)
         minted == [rq EXCEPT !.nextNut = IF nutInfo = NoNut THEN UnregisteredNut
                                           ELSE nutCtr + 1,
                              !.minted = 1]
     IN IF nutInfo = NoNut
        THEN Throw(r, minted, "Client presented unknown nut value")
        ELSE IF ver # 1
        THEN Throw(r, rq, "This server only handles SQRL protocol revision 1")
        ELSE /\ req' = [req EXCEPT ![r] =
                         [minted EXCEPT !.pc = "nutIssued", !.nutInfo = nutInfo]]
             /\ nutCtr' = nutCtr + 1
             /\ UNCHANGED hist
  /\ UNCHANGED <<nutTable, userTable, poll, http, parent>>

\* authenticateAsync up to the check of the awaited nutInfo: the request is
\* parsed, the version checked, getNutInfoAsync called, the follow-up nut
\* minted and the result of the lookup examined.
ReqStart(r, cmd, ver, nut, idk, pidk) ==
  /\ req[r].pc = "idle"
  /\ \A x \in Req : x < r => InFlight(req[x])
  /\ nutCtr < MaxNuts
  /\ LET rq == [IdleReq EXCEPT !.cmd = cmd, !.ver = ver, !.nut = nut,
                               !.idk = idk, !.pidk = pidk,
                               !.validCmd = cmd \in Commands,
                               !.reuse = nut \in hist.consumed,
                               !.lookedUp = (ver = 1),
                               !.known = nut \in DOMAIN nutTable]
         nutInfo == getNutRecord(nut)
         minted == [rq EXCEPT !.nextNut = IF nutInfo = NoNut THEN UnregisteredNut
                                           ELSE nutCtr + 1,
                              !.minted = 1]
     IN IF ver # 1
        THEN Throw(r, rq, "This server only handles SQRL protocol revision 1")
        ELSE IF nutInfo = NoNut
        THEN Throw(r, minted, "Client presented unknown nut value")
        ELSE /\ req' = [req EXCEPT ![r] =
                         [minted EXCEPT !.pc = "nutIssued", !.nutInfo = nutInfo]]
             /\ nutCtr' = nutCtr + 1
             /\ UNCHANGED hist
  /\ UNCHANGED <<nutTable, userTable, poll, http, parent>>

\* Dispatch with the break of the 'disable' case missing: a disable falls
\* through to enableAsync
DispatchFallThrough(r, rq) ==
  CASE rq.cmd = "query" ->
         Continue(r, [rq EXCEPT !.pc = "queryFind", !.cmdCalled = "query"])
    [] rq.cmd = "ident" ->
         Continue(r, [rq EXCEPT !.pc = "identFind", !.cmdCalled = "ident"])
    [] rq.cmd \in {"disable", "enable"} ->
         Finish(r, [rq EXCEPT !.cmdCalled = "enable", !.tif = 0, !.user = UserAbsent])
    [] rq.cmd = "remove" ->
         Finish(r, [rq EXCEPT !.cmdCalled = "remove", !.tif = 0, !.user = UserAbsent])
    [] OTHER ->
         Throw(r, rq, "Unknown SQRL command")

\* the switch on clientRequestInfo.sqrlCommand: the identity storage operation
\* is called and runs up to its first NeDB operation
Dispatch(r, rq) ==
  CASE rq.cmd = "query" ->
         Continue(r, [rq EXCEPT !.pc = "queryFind", !.cmdCalled = "query"])
    [] rq.cmd = "ident" ->
         Continue(r, [rq EXCEPT !.pc = "identFind", !.cmdCalled = "ident"])
    [] rq.cmd \in {"disable", "enable", "remove"} ->
         Finish(r, [rq EXCEPT !.cmdCalled = rq.cmd, !.tif = 0, !.user = UserAbsent])
    [] OTHER ->
         Throw(r, rq, "Unknown SQRL command")

\* ReqNutIssued registering the follow-up nut under the presented nut
ReqNutIssuedPredecessor(r) ==
  /\ req[r].pc = "nutIssued"
  /\ LET rq == req[r]
     IN /\ nutTable' = (rq.nextNut :> NutDBRecord(rq.nextNut, rq.nutInfo.nut)) @@ nutTable
        /\ parent' = (rq.nextNut :> rq.nut) @@ parent
        /\ Dispatch(r, [rq EXCEPT !.issued = rq.nextNut])
  /\ UNCHANGED <<userTable, poll, http>>

\* ReqNutIssued dispatching the command without the registration of the
\* follow-up nut
ReqNutIssuedUnregistered(r) ==
  /\ req[r].pc = "nutIssued"
  /\ Dispatch(r, req[r])
  /\ UNCHANGED <<nutTable, parent, userTable, poll, http>>

\* await nutIssuedToClientAsync(urlAndNut, nutInfo.originalLoginNut || nutInfo.nut),
\* then the dispatch of the command
ReqNutIssued(r) ==
  /\ req[r].pc = "nutIssued"
  /\ LET rq == req[r]
         originalLoginNut == IF rq.nutInfo.originalLoginNut # None
                             THEN rq.nutInfo.originalLoginNut ELSE rq.nutInfo.nut
     IN /\ nutTable' = (rq.nextNut :> NutDBRecord(rq.nextNut, originalLoginNut)) @@ nutTable
        /\ parent' = (rq.nextNut :> rq.nut) @@ parent
        /\ Dispatch(r, [rq EXCEPT !.issued = rq.nextNut])
  /\ UNCHANGED <<userTable, poll, http>>

\* TestSiteHandler.findUserByEitherKeyAsync
findUserByEitherKey(idk, pidk) ==
  LET keyMatches == {idk} \cup (IF pidk # None THEN {pidk} ELSE {})
      doc == FindDoc(keyMatches)
  IN IF doc # NoUser
     THEN [user |-> UserDoc(doc),
           tifValues |-> IF doc.sqrlPrimaryIdentityPublicKey = idk
                         THEN OrFlag(0, CurrentIDMatch)
                         ELSE OrFlag(0, PreviousIDMatch)]
     ELSE [user |-> UserAbsent, tifValues |-> 0]

\* ReqQueryFind creating the identity when it finds none, as identAsync does
ReqQueryFindCreates(r) ==
  /\ req[r].pc = "queryFind"
  /\ LET authInfo == findUserByEitherKey(req[r].idk, req[r].pidk)
     IN /\ userTable' = IF authInfo.user.kind = "doc" THEN userTable
                        ELSE Append(userTable,
                                    newFromClientRequestInfo(req[r].idk, req[r].pidk))
        /\ Finish(r, [req[r] EXCEPT !.user = authInfo.user, !.tif = authInfo.tifValues])
  /\ UNCHANGED <<nutTable, poll, http, parent>>

\* TestSiteHandler.queryAsync
ReqQueryFind(r) ==
  /\ req[r].pc = "queryFind"
  /\ UNCHANGED <<nutTable, userTable, poll, http, parent>>
  /\ LET authInfo == findUserByEitherKey(req[r].idk, req[r].pidk)
     IN Finish(r, [req[r] EXCEPT !.user = authInfo.user, !.tif = authInfo.tifValues])

\* MarkOriginal marking the record of the presented nut, whatever its origin
MarkOriginalPresented(rq) ==
  [rq EXCEPT !.pc = "identMark",
             !.origRec = [rq.nutInfo EXCEPT
                !.loggedIn = TRUE,
                !.clientPrimaryIdentityPublicKey = PrimaryKeyOf(rq.user)]]

\* identAsync from "Update the nut record for the original SQRL URL" up to the
\* NeDB operation it awaits next
MarkOriginal(rq) ==
  IF rq.nutInfo.originalLoginNut # None
  THEN [rq EXCEPT !.pc = "identGetOrig"]
  ELSE [rq EXCEPT !.pc = "identMark",
                  !.origRec = [rq.nutInfo EXCEPT
                     !.loggedIn = TRUE,
                     !.clientPrimaryIdentityPublicKey = PrimaryKeyOf(rq.user)]]

\* ReqIdentFind creating an identity record whatever the lookup finds
ReqIdentFindInserts(r) ==
  /\ req[r].pc = "identFind"
  /\ UNCHANGED <<nutTable, userTable, poll, http, parent>>
  /\ LET rq == req[r]
         authInfo == findUserByEitherKey(rq.idk, rq.pidk)
     IN Continue(r, [rq EXCEPT !.pc = "identInsert", !.tif = authInfo.tifValues,
                               !.user = authInfo.user])

\* identAsync: await findUserByEitherKeyAsync and the branch on its result
ReqIdentFind(r) ==
  /\ req[r].pc = "identFind"
  /\ UNCHANGED <<nutTable, userTable, poll, http, parent>>
  /\ LET rq == req[r]
         authInfo == findUserByEitherKey(rq.idk, rq.pidk)
         user == authInfo.user.doc
     IN IF authInfo.user.kind = "doc"
        THEN IF HasFlag(authInfo.tifValues, PreviousIDMatch)
             THEN Continue(r, [rq EXCEPT
                    !.pc = "identUpdate", !.tif = authInfo.tifValues,
                    !.user = UserDoc([user EXCEPT
                       !.sqrlPreviousIdentityPublicKeys = Append(@, rq.pidk),
                       !.sqrlPrimaryIdentityPublicKey = rq.idk])])
             ELSE Continue(r, MarkOriginal([rq EXCEPT !.tif = authInfo.tifValues,
                                                      !.user = authInfo.user]))
        ELSE Continue(r, [rq EXCEPT !.pc = "identInsert", !.tif = authInfo.tifValues,
                                    !.user = authInfo.user])

\* identAsync: authInfo.user = await userTable.updateAsync(searchRecord, user)
ReqIdentUpdate(r) ==
  /\ req[r].pc = "identUpdate"
  /\ LET rq == req[r]
         i == FindIndex({rq.pidk})
         numReplaced == IF i = 0 THEN 0 ELSE 1
     IN /\ userTable' = IF i = 0 THEN userTable
                        ELSE [userTable EXCEPT ![i] = rq.user.doc]
        /\ Continue(r, MarkOriginal([rq EXCEPT !.user = UserNum(numReplaced)]))
  /\ UNCHANGED <<nutTable, poll, http, parent>>

\* identAsync: await userTable.insertAsync(newRecord)
ReqIdentInsert(r) ==
  /\ req[r].pc = "identInsert"
  /\ LET rq == req[r]
         newRecord == newFromClientRequestInfo(rq.idk, rq.pidk)
     IN /\ \E i \in 1..(Len(userTable) + 1) :
             userTable' = InsertAt(userTable, i, newRecord)
        /\ Continue(r, MarkOriginal([rq EXCEPT !.user = UserDoc(newRecord), !.tif = 0]))
  /\ UNCHANGED <<nutTable, poll, http, parent>>

\* identAsync: await getNutRecordAsync(originalNutRecord.originalLoginNut)
ReqIdentGetOrig(r) ==
  /\ req[r].pc = "identGetOrig"
  /\ UNCHANGED <<nutTable, userTable, poll, http, parent>>
  /\ LET rq == req[r]
         originalNutRecord == getNutRecord(rq.nutInfo.originalLoginNut)
     IN IF originalNutRecord # NoNut
        THEN Continue(r, [rq EXCEPT
               !.pc = "identMark",
               !.origRec = [originalNutRecord EXCEPT
                  !.loggedIn = TRUE,
                  !.clientPrimaryIdentityPublicKey = PrimaryKeyOf(rq.user)]])
        ELSE Finish(r, rq)

\* ReqIdentMark toggling loggedIn: the ident after a login logs the page out
ReqIdentMarkToggle(r) ==
  /\ req[r].pc = "identMark"
  /\ LET rq == req[r]
     IN /\ nutTable' = IF rq.origRec.nut \in DOMAIN nutTable
                       THEN [nutTable EXCEPT ![rq.origRec.nut] =
                               [rq.origRec EXCEPT !.loggedIn = ~nutTable[rq.origRec.nut].loggedIn]]
                       ELSE nutTable
        /\ Finish(r, rq)
  /\ UNCHANGED <<userTable, poll, http, parent>>

\* identAsync: await nutTable.updateAsync({ nut: originalNutRecord.nut }, originalNutRecord)
ReqIdentMark(r) ==
  /\ req[r].pc = "identMark"
  /\ LET rq == req[r]
     IN /\ nutTable' = IF rq.origRec.nut \in DOMAIN nutTable
                       THEN [nutTable EXCEPT ![rq.origRec.nut] = rq.origRec]
                       ELSE nutTable
        /\ Finish(r, rq)
  /\ UNCHANGED <<userTable, poll, http, parent>>

\* the client of call r has received the reply
Respond(r) ==
  /\ req[r].pc = "reply"
  /\ req' = [req EXCEPT ![r] = IdleReq]
  /\ UNCHANGED <<nutTable, userTable, nutCtr, poll, http, parent, hist>>

\* ---------------------------------------------------------------- /pollNut
\* where the conversation of nut stands: "before" when nut is an origin nut and
\* no ident of its conversation has been answered, "after" when it is an origin
\* nut on whose chain a query and then an ident have been answered
PhaseOf(nut) ==
  IF nut \notin DOMAIN parent \/ parent[nut] # None THEN "other"
  ELSE IF nut \in hist.crossDone THEN "after"
  ELSE IF nut \notin hist.identDone THEN "before"
  ELSE "other"

\* PollGetNut removing the record of a nut it reports as not logged in
PollGetNutConsume(p, nut) ==
  /\ poll[p].pc = "idle"
  /\ \A x \in Poll : x < p => poll[x].pc # "idle"
  /\ LET nutRecord == getNutRecord(nut)
         pl == [IdlePoll EXCEPT !.phase = PhaseOf(nut)]
     IN /\ poll' = [poll EXCEPT ![p] =
             IF nutRecord = NoNut
             THEN [pl EXCEPT !.pc = "reply", !.seen = "none", !.result = "404"]
             ELSE IF ~nutRecord.loggedIn \/ nutRecord.clientPrimaryIdentityPublicKey = None
                  THEN [pl EXCEPT !.pc = "reply", !.result = "loggedIn:false",
                                  !.seen = IF nutRecord.loggedIn THEN "loggedIn" ELSE "new"]
                  ELSE [pl EXCEPT !.pc = "findUser", !.seen = "loggedIn",
                                  !.key = nutRecord.clientPrimaryIdentityPublicKey]]
        /\ nutTable' = IF nutRecord # NoNut /\ ~nutRecord.loggedIn
                       THEN [n \in DOMAIN nutTable \ {nut} |-> nutTable[n]]
                       ELSE nutTable
  /\ UNCHANGED <<userTable, nutCtr, req, parent, hist, http>>

\* GET /pollNut/:nut: getNutRecordAsync and its .then in the pollNutRoute handler
PollGetNut(p, nut) ==
  /\ poll[p].pc = "idle"
  /\ \A x \in Poll : x < p => poll[x].pc # "idle"
  /\ LET nutRecord == getNutRecord(nut)
         pl == [IdlePoll EXCEPT !.phase = PhaseOf(nut)]
     IN poll' = [poll EXCEPT ![p] =
          IF nutRecord = NoNut
          THEN [pl EXCEPT !.pc = "reply", !.seen = "none", !.result = "404"]
          ELSE IF ~nutRecord.loggedIn \/ nutRecord.clientPrimaryIdentityPublicKey = None
               THEN [pl EXCEPT !.pc = "reply", !.result = "loggedIn:false",
                               !.seen = IF nutRecord.loggedIn THEN "loggedIn" ELSE "new"]
               ELSE [pl EXCEPT !.pc = "findUser", !.seen = "loggedIn",
                               !.key = nutRecord.clientPrimaryIdentityPublicKey]]
  /\ UNCHANGED <<nutTable, userTable, nutCtr, req, parent, hist, http>>

\* the findUser callback: req.login(userDBRecord) serializes the user with
\* user.sqrlPrimaryIdentityPublicKey, which fails when no user was found
PollFindUser(p) ==
  /\ poll[p].pc = "findUser"
  /\ LET userDBRecord == FindDoc({poll[p].key})
     IN poll' = [poll EXCEPT ![p] =
          [@ EXCEPT !.pc = "reply", !.key = None,
                    !.result = IF userDBRecord # NoUser
                               THEN "loggedIn:true" ELSE "loginErr"]]
  /\ UNCHANGED <<nutTable, userTable, nutCtr, req, parent, hist, http>>

\* the answer of poll p has been sent
PollRespond(p) ==
  /\ poll[p].pc = "reply"
  /\ poll' = [poll EXCEPT ![p] = IdlePoll]
  /\ UNCHANGED <<nutTable, userTable, nutCtr, req, parent, hist, http>>

\* ---------------------------------------------------------------- system
\* what a client can present: a nut drawn for registration or any other value
PresentableNuts == (1..nutCtr) \cup {UnregisteredNut}
\* the key pairs a client signs with: its identity key and, when it has
\* rotated its identity, its previous identity key
ClientKeys == {k \in Keys \X (Keys \cup {None}) : k[1] # k[2]}

\* no SQRL API call is being processed
Quiet == \A r \in Req : ~InFlight(req[r])

\* The server when clients send one SQRL API call at a time.
Next ==
  \/ LoginPage
  \/ Quiet /\ \E r \in Req, cmd \in ClientCmds, ver \in Versions,
                   nut \in PresentableNuts, k \in ClientKeys :
                ReqStart(r, cmd, ver, nut, k[1], k[2])
  \/ \E r \in Req : ReqNutIssued(r)
  \/ \E r \in Req : ReqQueryFind(r)
  \/ \E r \in Req : ReqIdentFind(r)
  \/ \E r \in Req : ReqIdentUpdate(r)
  \/ \E r \in Req : ReqIdentInsert(r)
  \/ \E r \in Req : ReqIdentGetOrig(r)
  \/ \E r \in Req : ReqIdentMark(r)
  \/ \E r \in Req : Respond(r)

Spec == Init /\ [][Next]_vars

\* The same server when Node's event loop runs every pending continuation and
\* clients keep calling as long as they can. Neither TestSiteHandler nor
\* passport-sqrl starts a timer or sweeps nutTable: no step is taken on the
\* passage of time.
SpecLive == Init /\ [][Next]_vars /\ WF_vars(Next)

\* The server when up to MaxReq SQRL API calls overlap.
RaceNext ==
  \/ LoginPage
  \/ \E r \in Req :
       /\ req[r].pc = "idle"
       /\ \E cmd \in ClientCmds, ver \in Versions, nut \in PresentableNuts,
             k \in ClientKeys :
            ReqStart(r, cmd, ver, nut, k[1], k[2])
  \/ \E r \in Req : ReqNutIssued(r)
  \/ \E r \in Req : ReqQueryFind(r)
  \/ \E r \in Req : ReqIdentFind(r)
  \/ \E r \in Req : ReqIdentUpdate(r)
  \/ \E r \in Req : ReqIdentInsert(r)
  \/ \E r \in Req : ReqIdentGetOrig(r)
  \/ \E r \in Req : ReqIdentMark(r)
  \/ \E r \in Req : Respond(r)

SpecRace == Init /\ [][RaceNext]_vars

\* The server when browsers poll while clients send one SQRL API call at a time.
PollNext ==
  \/ LoginPage
  \/ Quiet /\ \E r \in Req, cmd \in ClientCmds, ver \in Versions,
                   nut \in PresentableNuts, k \in ClientKeys :
                ReqStart(r, cmd, ver, nut, k[1], k[2])
  \/ \E r \in Req : ReqNutIssued(r)
  \/ \E r \in Req : ReqQueryFind(r)
  \/ \E r \in Req : ReqIdentFind(r)
  \/ \E r \in Req : ReqIdentUpdate(r)
  \/ \E r \in Req : ReqIdentInsert(r)
  \/ \E r \in Req : ReqIdentGetOrig(r)
  \/ \E r \in Req : ReqIdentMark(r)
  \/ \E r \in Req : Respond(r)
  \/ \E p \in Poll, nut \in PresentableNuts : PollGetNut(p, nut)
  \/ \E p \in Poll : PollFindUser(p)
  \/ \E p \in Poll : PollRespond(p)

SpecPoll == Init /\ [][PollNext]_vars

\* ---------------------------------------------------------------- request envelope
MaxOpt == 3       \* pieces (option words and '~') in the opt= value of a request

\* what a name-value lookup gives for a name that is not there
Undefined == "undefined"
\* Number(undefined), Number of anything that is not a numeral
NaN == 0 - 1

\* One line of a name-value block: "name=val" (kind "pair"), a line that is
\* empty after trim() (kind "blank"), or a line whose first '=' is missing or
\* is its first character (kind "junk").
Pair(name, val) == [kind |-> "pair", name |-> name, val |-> val]
Junk == [kind |-> "junk", name |-> "", val |-> ""]

\* The text that a base64url string decodes to: a SQRL URL (it starts with
\* 'sqrl'; lines holds its query parameters) or a CRLF-separated block.
Text(url, lines) == [url |-> url, lines |-> lines]

\* base64url.encode and base64url.decode: a string is a sequence of pieces, the
\* empty sequence is the empty string, and an encoded text is one piece
Encode(text) == <<text>>
Decode(str) == str[1]

\* ed25519: a signature is made by the private half of one key over one
\* message, and Verify accepts exactly that key and that message
NoSig == [by |-> None, over |-> << >>]
Sign(key, msg) == [by |-> key, over |-> msg]
Verify(msg, sig, pub) == sig.by = pub /\ sig.over = msg

\* BodyParser.parseCRLFSeparatedFields: ok is FALSE when a line makes it throw
\* its Error, which has no httpStatusCode
CRLFFieldsOK(lines) == \A i \in 1..Len(lines) : lines[i].kind # "junk"

\* props[name] of the object parseCRLFSeparatedFields returns: the value of the
\* last line with that name, undef when there is none
Prop(lines, name, undef) ==
  LET at == {i \in 1..Len(lines) : lines[i].kind = "pair" /\ lines[i].name = name}
  IN IF at = {} THEN undef ELSE lines[CHOOSE i \in at : \A j \in at : j <= i].val

\* ToNumber giving the default protocolVersion of ClientRequestInfo when there
\* is no numeral
ToNumberDefault(v) == CASE v = "1" -> 1 [] v = "2" -> 2 [] OTHER -> 1

\* Number(clientProps.ver)
ToNumber(v) == CASE v = "1" -> 1 [] v = "2" -> 2 [] OTHER -> NaN

\* String.prototype.split('~')
RECURSIVE Split(_)
Split(str) ==
  LET at == {i \in 1..Len(str) : str[i] = "~"}
  IN IF at = {} THEN <<str>>
     ELSE LET i == CHOOSE k \in at : \A j \in at : k <= j
          IN <<SubSeq(str, 1, i - 1)>> \o Split(SubSeq(str, i + 1, Len(str)))

OptionNames == {"sqrlonly", "hardlock", "cps", "suk"}

\* the ClientRequestInfo under construction
RequestInfo(clientProps) ==
  [protocolVersion |-> ToNumber(Prop(clientProps, "ver", Undefined)),
   sqrlCommand |-> Prop(clientProps, "cmd", Undefined),
   primaryIdentityPublicKey |-> Prop(clientProps, "idk", None),
   previousIdentityPublicKey |-> Prop(clientProps, "pidk", None),
   nut |-> None,
   useSqrlIdentityOnly |-> FALSE, hardLockSqrlUse |-> FALSE,
   clientProvidedSession |-> FALSE, returnSessionUnlockKey |-> FALSE]

NoRequestInfo == RequestInfo(<< >>)

\* parseAndValidateRequestFields has thrown: a ClientInputError carries
\* httpStatusCode 400, an Error carries none
Thrown(msg, httpStatusCode) ==
  [ok |-> FALSE, message |-> msg, httpStatusCode |-> httpStatusCode,
   info |-> NoRequestInfo]
ClientInputError(msg) == Thrown(msg, 400)
Returned(info) == [ok |-> TRUE, message |-> "", httpStatusCode |-> None, info |-> info]

\* OptionsOf with the breaks of the 'hardlock' and 'cps' cases missing: each
\* falls through to the next case
OptionsOfFallThrough(info, optFields) ==
  [info EXCEPT
     !.useSqrlIdentityOnly = \E i \in 1..Len(optFields) : optFields[i] = <<"sqrlonly">>,
     !.hardLockSqrlUse = \E i \in 1..Len(optFields) : optFields[i] = <<"hardlock">>,
     !.clientProvidedSession =
        \E i \in 1..Len(optFields) : optFields[i] \in {<<"hardlock">>, <<"cps">>},
     !.returnSessionUnlockKey =
        \E i \in 1..Len(optFields) : optFields[i] \in {<<"hardlock">>, <<"cps">>, <<"suk">>}]

\* the forEach over the opt= tokens
OptionsOf(info, optFields) ==
  [info EXCEPT
     !.useSqrlIdentityOnly = \E i \in 1..Len(optFields) : optFields[i] = <<"sqrlonly">>,
     !.hardLockSqrlUse = \E i \in 1..Len(optFields) : optFields[i] = <<"hardlock">>,
     !.clientProvidedSession = \E i \in 1..Len(optFields) : optFields[i] = <<"cps">>,
     !.returnSessionUnlockKey = \E i \in 1..Len(optFields) : optFields[i] = <<"suk">>]

\* BodyParser.parseAndValidateRequestFields
parseAndValidateRequestFields(params) ==
  IF params.client = << >> THEN ClientInputError("Client field is required")
  ELSE IF params.server = << >> THEN ClientInputError("Server field is required")
  ELSE IF ~CRLFFieldsOK(Decode(params.client).lines)
  THEN Thrown("Failure parsing response line - no equal sign found", None)
  ELSE
  LET clientProps == Decode(params.client).lines
      requestInfo == RequestInfo(clientProps)
      clientServer == params.client \o params.server
      serverDecoded == Decode(params.server)
      nut == Prop(serverDecoded.lines, "nut", None)
      opt == Prop(clientProps, "opt", << >>)
      optFields == Split(opt)
  IN
  IF requestInfo.primaryIdentityPublicKey = None
  THEN ClientInputError("Missing primary identity public key field in SQRL request")
  ELSE IF params.ids = NoSig
  THEN ClientInputError("Missing ids= primary key signature field in SQRL request")
  ELSE IF ~Verify(clientServer, params.ids, requestInfo.primaryIdentityPublicKey)
  THEN ClientInputError("Primary public key did not verify correctly")
  ELSE IF requestInfo.previousIdentityPublicKey # None /\ params.pids = NoSig
  THEN ClientInputError("Missing pids= previous key signature field where the pidk= previous public key is specified")
  ELSE IF /\ requestInfo.previousIdentityPublicKey # None
          /\ ~Verify(clientServer, params.pids, requestInfo.previousIdentityPublicKey)
  THEN ClientInputError("Previous public key did not verify correctly")
  ELSE IF ~serverDecoded.url /\ ~CRLFFieldsOK(serverDecoded.lines)
  THEN Thrown("Failure parsing response line - no equal sign found", None)
  ELSE IF nut = None
  THEN ClientInputError("server= info from client is not either a QR-code URL with nut= query param or a server response with nut= field")
  ELSE IF opt # << >> /\ \E i \in 1..Len(optFields) : optFields[i] \notin {<<o>> : o \in OptionNames}
  THEN ClientInputError("Unknown SQRL client option")
  ELSE Returned(OptionsOf([requestInfo EXCEPT !.nut = nut],
                          IF opt # << >> THEN optFields ELSE << >>))

\* ---------------------------------------------------------------- SQRL clients
\* What a client puts into one request. client: whether the client= parameter
\* is sent; ver, cmd, idk, pidk, opt: the values of its lines (Undefined, None
\* or the empty string: no such line); nut: a nut= line of the client block,
\* which no client sends and the validator does not read; junk: a further line
\* without '=';
\* server: the form of the server= parameter and the nut it carries; ids,
\* pids: how the signature parameters are made.
ServerShapes ==
  {<<"absent", None>>, <<"url", 1>>, <<"url", None>>, <<"block", 2>>,
   <<"block", UnregisteredNut>>, <<"block", None>>, <<"junkblock", 2>>,
   <<"junkblock", None>>}

\* the strings of at most n pieces over the option words, 'bogus' and '~'
RECURSIVE OptStrings(_)
OptStrings(n) ==
  IF n = 0 THEN {<< >>}
  ELSE LET shorter == OptStrings(n - 1)
       IN shorter \cup {Append(o, w) : o \in shorter,
                                      w \in OptionNames \cup {"bogus", "~"}}

\* requests that differ in which parameters and lines are there
FieldShapes ==
  [client : BOOLEAN, ver : {Undefined, "1", "2"},
   cmd : {Undefined, "query", "ident", "bogus"}, idk : {None, 1}, pidk : {None, 2},
   opt : {<< >>}, nut : {None}, junk : BOOLEAN, server : ServerShapes,
   ids : {"absent", "valid"}, pids : {"absent", "valid"}]

\* requests that differ in how they are signed
SignatureShapes ==
  [client : {TRUE}, ver : {"1"}, cmd : {"query", "ident"}, idk : {1},
   pidk : {None, 2}, opt : {<< >>}, nut : {None}, junk : BOOLEAN,
   server : {<<"url", 1>>},
   ids : {"absent", "valid", "otherKey", "otherMessage"},
   pids : {"absent", "valid", "otherKey", "otherMessage"}]

\* requests that differ in their opt= value
OptionShapes ==
  [client : {TRUE}, ver : {"1"}, cmd : {"query", "ident"}, idk : {1},
   pidk : {None}, opt : OptStrings(MaxOpt), nut : {None}, junk : {FALSE},
   server : {<<"url", 1>>},
   ids : {"valid"}, pids : {"absent"}]

\* requests that differ in where a nut is written
NutShapes ==
  [client : {TRUE}, ver : {"1"}, cmd : {"query", "ident"}, idk : {1},
   pidk : {None}, opt : {<< >>}, nut : {None, 1, 2}, junk : {FALSE},
   server : ServerShapes, ids : {"valid"}, pids : {"absent"}]

Shapes == FieldShapes \cup SignatureShapes \cup OptionShapes \cup NutShapes

Line(name, val, undef) == IF val = undef THEN << >> ELSE <<Pair(name, val)>>

\* the client= parameter of a request of shape s
ClientOf(s) ==
  IF ~s.client THEN << >>
  ELSE Encode(Text(FALSE,
         Line("ver", s.ver, Undefined) \o Line("cmd", s.cmd, Undefined)
           \o Line("idk", s.idk, None) \o Line("pidk", s.pidk, None)
           \o Line("opt", s.opt, << >>) \o Line("nut", s.nut, None)
           \o (IF s.junk THEN <<Junk>> ELSE << >>)))

\* the server= parameter: the URL of the login page or the body of the reply
\* to the client's previous call
ServerOf(s) ==
  CASE s.server[1] = "absent" -> << >>
    [] s.server[1] = "url" -> Encode(Text(TRUE, Line("nut", s.server[2], None)))
    [] s.server[1] = "block" ->
         Encode(Text(FALSE, <<Pair("ver", "1")>> \o Line("nut", s.server[2], None)))
    [] OTHER ->
         Encode(Text(FALSE, <<Pair("ver", "1")>> \o Line("nut", s.server[2], None)
                              \o <<Junk>>))

\* a signature parameter: made with the private half of key over client+server,
\* with the other key, or over the two strings the other way round
SignatureOf(s, how, key) ==
  CASE how = "absent" -> NoSig
    [] how = "valid" -> Sign(key, ClientOf(s) \o ServerOf(s))
    [] how = "otherKey" -> Sign(3 - key, ClientOf(s) \o ServerOf(s))
    [] OTHER -> Sign(key, ServerOf(s) \o ClientOf(s))

\* req.body of the POST (req.params of a GET) of a request of shape s
ParamsOf(s) ==
  [client |-> ClientOf(s), server |-> ServerOf(s),
   ids |-> SignatureOf(s, s.ids, 1), pids |-> SignatureOf(s, s.pids, 2)]

\* The server receives the request of one client. Before that nothing has
\* happened, or a login page has been rendered and a call presenting its nut
\* has been answered: a query of an unknown identity, or the ident that
\* created the identity with the client's previous key.
RequestInit ==
  /\ \/ /\ nutTable = << >>
        /\ userTable = << >>
        /\ nutCtr = 0
        /\ parent = << >>
        /\ hist = NoHist
     \/ /\ nutTable = (2 :> NutDBRecord(2, 1)) @@ (1 :> NutDBRecord(1, None))
        /\ userTable = << >>
        /\ nutCtr = 2
        /\ parent = (2 :> 1) @@ (1 :> None)
        /\ hist = [NoHist EXCEPT !.consumed = {1}, !.queryDone = {1}]
     \/ /\ nutTable = (2 :> NutDBRecord(2, 1)) @@
                       (1 :> [NutDBRecord(1, None) EXCEPT
                                !.loggedIn = TRUE,
                                !.clientPrimaryIdentityPublicKey = 2])
        /\ userTable = <<newFromClientRequestInfo(2, None)>>
        /\ nutCtr = 2
        /\ parent = (2 :> 1) @@ (1 :> None)
        /\ hist = [NoHist EXCEPT !.consumed = {1}, !.identDone = {1}]
  /\ req = [r \in Req |-> IdleReq]
  /\ poll = [p \in Poll |-> IdlePoll]
  /\ \E s \in Shapes : http = [pc |-> "request", shape |-> s, params |-> ParamsOf(s)]

\* handleSqrlApi up to the check of the awaited nutInfo: the parameters are
\* parsed and validated; when that throws, the catch-branch sends the error
\* reply, otherwise authenticateAsync goes on with the parsed request.
Receive(r) ==
  /\ http.pc = "request"
  /\ LET parsed == parseAndValidateRequestFields(http.params)
     IN IF parsed.ok
        THEN ReqStart(r, parsed.info.sqrlCommand, parsed.info.protocolVersion,
                      parsed.info.nut, parsed.info.primaryIdentityPublicKey,
                      parsed.info.previousIdentityPublicKey)
        ELSE /\ req[r].pc = "idle"
             /\ \A x \in Req : x < r => InFlight(req[x])
             /\ req' = [req EXCEPT ![r] =
                          ErrorReply(IdleReq, parsed.message, parsed.httpStatusCode)]
             /\ UNCHANGED <<nutTable, userTable, nutCtr, poll, http, parent, hist>>

\* The server when a client sends its request, and sends it again.
RequestNext ==
  \/ LoginPage
  \/ Quiet /\ \E r \in Req : Receive(r)
  \/ \E r \in Req : ReqNutIssued(r)
  \/ \E r \in Req : ReqQueryFind(r)
  \/ \E r \in Req : ReqIdentFind(r)
  \/ \E r \in Req : ReqIdentUpdate(r)
  \/ \E r \in Req : ReqIdentInsert(r)
  \/ \E r \in Req : ReqIdentGetOrig(r)
  \/ \E r \in Req : ReqIdentMark(r)
  \/ \E r \in Req : Respond(r)

SpecRequest == RequestInit /\ [][RequestNext]_vars

\* ---------------------------------------------------------------- reply body
MaxTif == 511     \* the largest value of the nine TIF flags or-ed together

IDDisabled == 8

HexDigits ==
  <<"0", "1", "2", "3", "4", "5", "6", "7", "8", "9", "a", "b", "c", "d", "e", "f">>

\* Number.prototype.toString(10)
RECURSIVE ToDecimal(_)
ToDecimal(n) ==
  IF n < 10 THEN <<HexDigits[n + 1]>>
  ELSE ToDecimal(n \div 10) \o <<HexDigits[(n % 10) + 1]>>

\* Number.prototype.toString(16)
RECURSIVE ToHex(_)
ToHex(n) ==
  IF n < 16 THEN <<HexDigits[n + 1]>>
  ELSE ToHex(n \div 16) \o <<HexDigits[(n % 16) + 1]>>

\* parseInt(str, 16) of a string of hexadecimal digits
RECURSIVE ParseHex(_)
ParseHex(str) ==
  IF str = << >> THEN 0
  ELSE LET d == CHOOSE k \in 0..15 : HexDigits[k + 1] = str[Len(str)]
       IN 16 * ParseHex(SubSeq(str, 1, Len(str) - 1)) + d

CRLF == "\r\n"

\* serverLines.join("\r\n")
RECURSIVE Join(_)
Join(lines) ==
  IF Len(lines) = 0 THEN << >>
  ELSE IF Len(lines) = 1 THEN <<lines[1]>>
  ELSE <<lines[1], CRLF>> \o Join(Tail(lines))

\* config.urlPath + '?nut=' + nut
QueryUrl(nut) == [path |-> "urlPath", nut |-> nut]

\* authCompletionToResponseBody with url= for every command of a client that
\* sent cps
authCompletionToResponseBodyUrlAlways(clientRequestInfo, authInfo, config) ==
  LET serverLines ==
        <<Pair("ver", "1"),
          Pair("nut", clientRequestInfo.nextNut),
          Pair("tif", ToHex(authInfo.tifValues)),
          Pair("qry", QueryUrl(clientRequestInfo.nextNut))>>
        \o (IF clientRequestInfo.clientProvidedSession
            THEN <<Pair("url", config.clientLoginSuccessUrl)>> ELSE << >>)
        \o (IF /\ clientRequestInfo.returnSessionUnlockKey
               /\ authInfo.sessionUnlockKey # None
            THEN <<Pair("suk", authInfo.sessionUnlockKey)>> ELSE << >>)
        \o (IF config.clientCancelAuthUrl # Undefined
            THEN <<Pair("can", config.clientCancelAuthUrl)>> ELSE << >>)
  IN Encode(Text(FALSE, Join(serverLines) \o <<CRLF>>))

\* SQRLExpress.authCompletionToResponseBody. A text is here the sequence of
\* its lines and of the CRLF pairs between and after them; tifValues
\* undefined and tifValues 0 are both 0.
authCompletionToResponseBody(clientRequestInfo, authInfo, config) ==
  LET serverLines ==
        <<Pair("ver", "1"),
          Pair("nut", clientRequestInfo.nextNut),
          Pair("tif", ToHex(authInfo.tifValues)),
          Pair("qry", QueryUrl(clientRequestInfo.nextNut))>>
        \o (IF /\ clientRequestInfo.clientProvidedSession
               /\ clientRequestInfo.sqrlCommand # "query"
            THEN <<Pair("url", config.clientLoginSuccessUrl)>> ELSE << >>)
        \o (IF /\ clientRequestInfo.returnSessionUnlockKey
               /\ authInfo.sessionUnlockKey # None
            THEN <<Pair("suk", authInfo.sessionUnlockKey)>> ELSE << >>)
        \o (IF config.clientCancelAuthUrl # Undefined
            THEN <<Pair("can", config.clientCancelAuthUrl)>> ELSE << >>)
  IN Encode(Text(FALSE, Join(serverLines) \o <<CRLF>>))

\* The messages of the errors thrown by the validator that contain a '='
\* (after its first character).
MessagesWithEquals ==
  {"Missing ids= primary key signature field in SQRL request",
   "Missing pids= previous key signature field where the pidk= previous public key is specified",
   "server= info from client is not either a QR-code URL with nut= query param or a server response with nut= field"}

\* The last element of serverLines in the catch-branch of handleSqrlApi, as
\* parseCRLFSeparatedFields sees it. '+' binds tighter than '?:', so
\*   'ask=' + "Server error: " + err ? err.toString() : "<none>"
\* is err.toString(), i.e. "Error: " followed by the message: a line without
\* 'ask=', and without any '=' unless the message has one.
ErrorLine(msg) ==
  IF msg \in MessagesWithEquals
  THEN Pair("Error: <the message up to its first '='>", msg)
  ELSE Junk

\* the body of the error reply composed by the catch-branch of handleSqrlApi
errorResponseBody(tif, nextNut, msg) ==
  LET serverLines ==
        <<Pair("ver", "1"),
          Pair("nut", nextNut),
          Pair("tif", ToHex(tif)),
          Pair("qry", QueryUrl(nextNut)),
          ErrorLine(msg)>>
  IN Encode(Text(FALSE, Join(serverLines) \o <<CRLF>>))

\* MockSQRLClient.parseServerBody up to the name-value lookup: the lines of a
\* body, without the CRLF pairs that follow them
LinesOf(body) ==
  LET text == Decode(body).lines
  IN [i \in 1..(Len(text) \div 2) |-> text[2 * i - 1]]

\* The identity storage operation of a call has resolved with authInfo; the
\* call came from a client that sent the options of clientRequestInfo, and the
\* server runs with config.
ReplyInit ==
  /\ nutTable = << >>
  /\ userTable = << >>
  /\ nutCtr = 0
  /\ req = [r \in Req |-> IdleReq]
  /\ poll = [p \in Poll |-> IdlePoll]
  /\ parent = << >>
  /\ hist = NoHist
  /\ \E cps \in BOOLEAN, suk \in BOOLEAN, cmd \in Commands, nextNut \in 1..MaxNuts,
        tifValues \in 0..MaxTif, sessionUnlockKey \in {None, 1},
        clientCancelAuthUrl \in {Undefined, "/cancel"} :
       http = [pc |-> "completed",
               clientRequestInfo |->
                 [sqrlCommand |-> cmd, nextNut |-> nextNut,
                  clientProvidedSession |-> cps, returnSessionUnlockKey |-> suk],
               authInfo |-> [tifValues |-> tifValues,
                             sessionUnlockKey |-> sessionUnlockKey],
               config |-> [clientLoginSuccessUrl |-> "/success",
                           clientCancelAuthUrl |-> clientCancelAuthUrl],
               httpResponseCode |-> 0,
               body |-> << >>]

\* authenticateAsync returns the AuthenticateAsyncResult, and the then-branch
\* of handleSqrlApi sends it
SendReply ==
  /\ http.pc = "completed"
  /\ http' = [http EXCEPT
       !.pc = "sent",
       !.httpResponseCode = 200,
       !.body = authCompletionToResponseBody(http.clientRequestInfo, http.authInfo,
                                             http.config)]
  /\ UNCHANGED <<nutTable, userTable, nutCtr, req, poll, parent, hist>>

SpecReply == ReplyInit /\ [][SendReply]_vars

\* ---------------------------------------------------------------- failing storage
\* what a rejected NeDB operation carries: an Error without httpStatusCode
StorageFailure == "storage operation failed"

\* authenticateAsync up to the awaited nutInfo when getNutInfoAsync rejects:
\* the request is parsed, the version checked, the follow-up nut minted, and
\* the await throws.
ReqLookupFails(r, cmd, nut, idk, pidk) ==
  /\ req[r].pc = "idle"
  /\ \A x \in Req : x < r => InFlight(req[x])
  /\ LET rq == [IdleReq EXCEPT !.cmd = cmd, !.nut = nut,
                               !.idk = idk, !.pidk = pidk,
                               !.validCmd = cmd \in Commands,
                               !.reuse = nut \in hist.consumed,
                               !.lookedUp = TRUE,
                               !.known = nut \in DOMAIN nutTable,
                               !.nextNut = UnregisteredNut, !.minted = 1]
     IN req' = [req EXCEPT ![r] = ErrorReply(rq, StorageFailure, None)]
  /\ UNCHANGED <<nutTable, userTable, nutCtr, poll, http, parent, hist>>

\* the registry or identity storage operation that call r awaits rejects:
\* authenticateAsync throws and the catch-branch of handleSqrlApi answers
ReqOperationFails(r) ==
  /\ InFlight(req[r])
  /\ req' = [req EXCEPT ![r] = ErrorReply(req[r], StorageFailure, None)]
  /\ UNCHANGED <<nutTable, userTable, nutCtr, poll, http, parent, hist>>

\* The server when clients send one SQRL API call at a time and operations of
\* the registry and of the identity storage can fail.
FaultNext ==
  \/ LoginPage
  \/ Quiet /\ \E r \in Req, cmd \in ClientCmds, ver \in Versions,
                   nut \in PresentableNuts, k \in ClientKeys :
                ReqStart(r, cmd, ver, nut, k[1], k[2])
  \/ \E r \in Req : ReqNutIssued(r)
  \/ \E r \in Req : ReqQueryFind(r)
  \/ \E r \in Req : ReqIdentFind(r)
  \/ \E r \in Req : ReqIdentUpdate(r)
  \/ \E r \in Req : ReqIdentInsert(r)
  \/ \E r \in Req : ReqIdentGetOrig(r)
  \/ \E r \in Req : ReqIdentMark(r)
  \/ \E r \in Req : Respond(r)
  \/ Quiet /\ \E r \in Req, cmd \in ClientCmds, nut \in PresentableNuts,
                   k \in ClientKeys :
                ReqLookupFails(r, cmd, nut, k[1], k[2])
  \/ \E r \in Req : ReqOperationFails(r)

SpecFault == Init /\ [][FaultNext]_vars

\* ---------------------------------------------------------------- SQRL URLs
\* Strings are sequences of characters; a piece of more than one character
\* ("sqrl://", the domain) stands for text the functions copy through.
MaxPath == 3
MaxBytes == 3
MaxTrim == 4

\* the strings of at most n characters over chars
RECURSIVE StringsOver(_, _)
StringsOver(chars, n) ==
  IF n = 0 THEN {<< >>}
  ELSE LET shorter == StringsOver(chars, n - 1)
       IN shorter \cup {Append(str, c) : str \in shorter, c \in chars}

\* the alphabet of Buffer.toString('base64')
Base64Chars ==
  <<"A", "B", "C", "D", "E", "F", "G", "H", "I", "J", "K", "L", "M", "N", "O", "P",
    "Q", "R", "S", "T", "U", "V", "W", "X", "Y", "Z", "a", "b", "c", "d", "e", "f",
    "g", "h", "i", "j", "k", "l", "m", "n", "o", "p", "q", "r", "s", "t", "u", "v",
    "w", "x", "y", "z", "0", "1", "2", "3", "4", "5", "6", "7", "8", "9", "+", "/">>

\* Buffer.toString('base64'): three bytes give four characters, a rest of one
\* or two bytes gives two or three characters and '=' padding
RECURSIVE toBase64(_)
toBase64(buf) ==
  LET c(n) == Base64Chars[n + 1] IN
  IF Len(buf) = 0 THEN << >>
  ELSE IF Len(buf) = 1
  THEN <<c(buf[1] \div 4), c((buf[1] % 4) * 16), "=", "=">>
  ELSE IF Len(buf) = 2
  THEN <<c(buf[1] \div 4), c((buf[1] % 4) * 16 + buf[2] \div 16),
         c((buf[2] % 16) * 4), "=">>
  ELSE <<c(buf[1] \div 4), c((buf[1] % 4) * 16 + buf[2] \div 16),
         c((buf[2] % 16) * 4 + buf[3] \div 64), c(buf[3] % 64)>>
         \o toBase64(SubSeq(buf, 4, Len(buf)))

\* base64url.fromBase64: every '=' dropped, '+' becomes '-', '/' becomes '_'
fromBase64(base64) ==
  LET kept == SelectSeq(base64, LAMBDA ch : ch # "=")
  IN [i \in 1..Len(kept) |-> IF kept[i] = "+" THEN "-"
                             ELSE IF kept[i] = "/" THEN "_" ELSE kept[i]]

\* base64url.encode of a Buffer
base64urlEncode(buf) == fromBase64(toBase64(buf))

\* trimEqualsChars cutting at most one '=' off the end
trimEqualsCharsOnce(s) ==
  IF Len(s) = 0 THEN s
  ELSE IF s[Len(s)] = "=" THEN SubSeq(s, 1, Len(s) - 1) ELSE s

\* the while loop of trimEqualsChars with i at character i (counted from 1)
\* and the substring it returns
RECURSIVE TrimFrom(_, _)
TrimFrom(s, i) ==
  IF i >= 1 /\ s[i] = "=" THEN TrimFrom(s, i - 1) ELSE SubSeq(s, 1, i)

trimEqualsChars(s) ==
  IF Len(s) = 0 THEN s ELSE TrimFrom(s, Len(s))

toSqrlBase64(buf) == trimEqualsChars(base64urlEncode(buf))

\* a nut is a string or a Buffer
StringNut(str) == [kind |-> "string", value |-> str]
BufferNut(buf) == [kind |-> "Buffer", value |-> buf]

\* SqrlUrlFactory.nutToString
nutToString(nut) ==
  IF nut.kind = "Buffer" THEN toSqrlBase64(nut.value) ELSE nut.value

Min(a, b) == IF a < b THEN a ELSE b

\* a number in a template literal: its decimal numeral
RECURSIVE NumberToString(_)
NumberToString(n) ==
  IF n < 10 THEN <<HexDigits[n + 1]>>
  ELSE NumberToString(n \div 10) \o <<HexDigits[(n % 10) + 1]>>

\* SqrlUrlFactory.create putting domainExtension into x= as it was given
createNoMin(domain, serverNut, port, pathString, domainExtension) ==
  LET portPart == IF port # 0 THEN <<":">> \o NumberToString(port) ELSE << >>
      withSlash == IF Len(pathString) > 0 /\ pathString[1] # "/"
                   THEN <<"/">> \o pathString ELSE pathString
      path == IF Len(withSlash) > 0 /\ withSlash[Len(withSlash)] = "?"
              THEN SubSeq(withSlash, 1, Len(withSlash) - 1) ELSE withSlash
      domainExt == IF Len(path) > 0 /\ domainExtension # 0 /\ domainExtension > 0
                   THEN <<"&x=">> \o NumberToString(domainExtension)
                   ELSE << >>
  IN <<"sqrl://", domain>> \o portPart \o path \o <<"?nut=">>
       \o nutToString(serverNut) \o domainExt

\* SqrlUrlFactory.create. An absent port and port 0 are both falsy, as are an
\* absent domainExtension and 0, and an absent pathString and '': each pair is
\* one input here (0, 0 and the empty string).
create(domain, serverNut, port, pathString, domainExtension) ==
  LET portPart == IF port # 0 THEN <<":">> \o NumberToString(port) ELSE << >>
      withSlash == IF Len(pathString) > 0 /\ pathString[1] # "/"
                   THEN <<"/">> \o pathString ELSE pathString
      path == IF Len(withSlash) > 0 /\ withSlash[Len(withSlash)] = "?"
              THEN SubSeq(withSlash, 1, Len(withSlash) - 1) ELSE withSlash
      domainExt == IF Len(path) > 0 /\ domainExtension # 0 /\ domainExtension > 0
                   THEN <<"&x=">> \o NumberToString(Min(domainExtension, Len(path)))
                   ELSE << >>
  IN <<"sqrl://", domain>> \o portPart \o path \o <<"?nut=">>
       \o nutToString(serverNut) \o domainExt

\* the inputs of the calls
ByteValues == {0, 1, 251, 255}
Buffers == StringsOver(ByteValues, MaxBytes)
PathStrings == StringsOver({"/", "?", "a"}, MaxPath)
TrimStrings == StringsOver({"=", "a"}, MaxTrim)
Ports == {0, 80}
DomainExtensions == (0 - 1)..(MaxPath + 2)
Nuts == {StringNut(<<"n", "1">>)} \cup {BufferNut(buf) : buf \in Buffers}

\* One of the three functions is about to be called with some input.
UrlInit ==
  /\ nutTable = << >>
  /\ userTable = << >>
  /\ nutCtr = 0
  /\ parent = << >>
  /\ hist = NoHist
  /\ req = [r \in Req |-> IdleReq]
  /\ poll = [p \in Poll |-> IdlePoll]
  /\ \/ \E serverNut \in Nuts, port \in Ports, pathString \in PathStrings,
          domainExtension \in DomainExtensions :
          http = [pc |-> "create", domain |-> "foo.com", serverNut |-> serverNut,
                  port |-> port, pathString |-> pathString,
                  domainExtension |-> domainExtension]
     \/ \E s \in TrimStrings : http = [pc |-> "trimEqualsChars", s |-> s]
     \/ \E buf \in Buffers : http = [pc |-> "toSqrlBase64", buf |-> buf]

CallCreate ==
  /\ http.pc = "create"
  /\ http' = [pc |-> "created", domain |-> http.domain, serverNut |-> http.serverNut,
              port |-> http.port, pathString |-> http.pathString,
              domainExtension |-> http.domainExtension,
              url |-> create(http.domain, http.serverNut, http.port,
                             http.pathString, http.domainExtension)]
  /\ UNCHANGED <<nutTable, userTable, nutCtr, req, poll, parent, hist>>

CallTrimEqualsChars ==
  /\ http.pc = "trimEqualsChars"
  /\ http' = [pc |-> "trimmed", s |-> http.s, result |-> trimEqualsChars(http.s)]
  /\ UNCHANGED <<nutTable, userTable, nutCtr, req, poll, parent, hist>>

CallToSqrlBase64 ==
  /\ http.pc = "toSqrlBase64"
  /\ http' = [pc |-> "encoded", buf |-> http.buf, result |-> toSqrlBase64(http.buf)]
  /\ UNCHANGED <<nutTable, userTable, nutCtr, req, poll, parent, hist>>

UrlNext ==
  \/ CallCreate
  \/ CallTrimEqualsChars
  \/ CallToSqrlBase64

SpecUrl == UrlInit /\ [][UrlNext]_vars

\* ---------------------------------------------------------------- name-value decoder
\* The decoder on the characters of a text. A text is a sequence of characters;
\* the piece "\r\n" is a CRLF pair, and a piece of more than one character
\* ("ver", "/success") stands for characters that are neither '=', white space
\* nor CR LF.
MaxLine == 3      \* characters of a line of a block
MaxLines == 2     \* lines of a block

Whitespace == {" ", "\t"}

\* String.prototype.split('\r\n')
RECURSIVE SplitCRLF(_)
SplitCRLF(text) ==
  LET at == {i \in 1..Len(text) : text[i] = CRLF}
  IN IF at = {} THEN <<text>>
     ELSE LET i == CHOOSE k \in at : \A j \in at : k <= j
          IN <<SubSeq(text, 1, i - 1)>> \o SplitCRLF(SubSeq(text, i + 1, Len(text)))

\* String.prototype.trim()
RECURSIVE Trim(_)
Trim(line) ==
  IF line = << >> THEN line
  ELSE IF line[1] \in Whitespace THEN Trim(Tail(line))
  ELSE IF line[Len(line)] \in Whitespace THEN Trim(SubSeq(line, 1, Len(line) - 1))
  ELSE line

\* String.prototype.indexOf: the index, counted from 0, of the first ch of
\* line, -1 when there is none
IndexOf(line, ch) ==
  LET at == {i \in 1..Len(line) : line[i] = ch}
  IN IF at = {} THEN 0 - 1 ELSE (CHOOSE k \in at : \A j \in at : k <= j) - 1

\* the props object after the forEach has run over the first n lines
RECURSIVE PropsAfter(_, _)
PropsAfter(lines, n) ==
  IF n = 0 THEN << >>
  ELSE LET line == Trim(lines[n])
           props == PropsAfter(lines, n - 1)
           eqIndex == IndexOf(line, "=")
           name == SubSeq(line, 1, eqIndex)
           val == SubSeq(line, eqIndex + 2, Len(line))
       IN IF Len(line) = 0 THEN props
          ELSE (name :> val) @@ props

\* BodyParser.parseCRLFSeparatedFields: ok is FALSE when it throws its Error
parseCRLFSeparatedFields(preSplitLines) ==
  LET lines == SplitCRLF(preSplitLines)
  IN IF \E i \in 1..Len(lines) :
          Len(Trim(lines[i])) # 0 /\ IndexOf(Trim(lines[i]), "=") < 1
     THEN [ok |-> FALSE, props |-> << >>]
     ELSE [ok |-> TRUE, props |-> PropsAfter(lines, Len(lines))]

\* Array.prototype.join("\r\n") on the characters of the lines
RECURSIVE JoinCRLF(_)
JoinCRLF(lines) ==
  IF Len(lines) = 0 THEN << >>
  ELSE IF Len(lines) = 1 THEN lines[1]
  ELSE lines[1] \o <<CRLF>> \o JoinCRLF(Tail(lines))

\* a nut in a string: the characters of a registered nut, or of one that was
\* never registered
NutChars(nut) ==
  IF nut = UnregisteredNut THEN <<"unregistered">> ELSE NumberToString(nut)

\* the characters of the value the engine emits in the line of name
ValueChars(name, val) ==
  CASE name = "nut" -> NutChars(val)
    [] name = "suk" -> NumberToString(val)
    [] name = "tif" -> val
    [] name = "qry" -> <<val.path, "?nut", "=">> \o NutChars(val.nut)
    [] OTHER -> <<val>>

\* the characters of one line of serverLines: 'name=' + value, or the text of
\* an error that has no '='
LineChars(line) ==
  IF line.kind = "pair" THEN <<line.name, "=">> \o ValueChars(line.name, line.val)
  ELSE <<"Error: message">>

\* the characters of a body once base64url.decode has run over it
BodyChars(body) ==
  JoinCRLF([i \in 1..Len(LinesOf(body)) |-> LineChars(LinesOf(body)[i])]) \o <<CRLF>>

\* the lines of a block, and the blocks of up to MaxLines lines
BlockLines == StringsOver({"n", "m", "=", " "}, MaxLine)
Blocks == StringsOver(BlockLines, MaxLines)

\* the replies of the engine: those of the then-branch and of the catch-branch
\* of handleSqrlApi
EmittedBodies ==
  {authCompletionToResponseBody(
     [sqrlCommand |-> cmd, nextNut |-> 2, clientProvidedSession |-> cps,
      returnSessionUnlockKey |-> suk],
     [tifValues |-> tifValues, sessionUnlockKey |-> 1],
     [clientLoginSuccessUrl |-> "/success", clientCancelAuthUrl |-> can]) :
     cmd \in {"query", "ident"}, cps \in BOOLEAN, suk \in BOOLEAN,
     tifValues \in {0, CurrentIDMatch, PreviousIDMatch},
     can \in {Undefined, "/cancel"}}
  \cup
  {errorResponseBody(CommandFailed + TransientError, UnregisteredNut, msg) :
     msg \in {"Client presented unknown nut value",
              "Missing ids= primary key signature field in SQRL request"}}

\* The decoder is about to be called with the text of a block or of a reply
\* of the engine.
DecodeInit ==
  /\ nutTable = << >>
  /\ userTable = << >>
  /\ nutCtr = 0
  /\ parent = << >>
  /\ hist = NoHist
  /\ req = [r \in Req |-> IdleReq]
  /\ poll = [p \in Poll |-> IdlePoll]
  /\ \/ \E block \in Blocks :
          http = [pc |-> "decode", from |-> "block", body |-> << >>,
                  text |-> JoinCRLF(block)]
     \/ \E body \in EmittedBodies :
          http = [pc |-> "decode", from |-> "engine", body |-> body,
                  text |-> BodyChars(body)]

CallParseCRLFSeparatedFields ==
  /\ http.pc = "decode"
  /\ http' = [pc |-> "decoded", from |-> http.from, body |-> http.body,
              text |-> http.text, result |-> parseCRLFSeparatedFields(http.text)]
  /\ UNCHANGED <<nutTable, userTable, nutCtr, req, poll, parent, hist>>

DecodeNext == CallParseCRLFSeparatedFields

SpecDecode == DecodeInit /\ [][DecodeNext]_vars

\* ---------------------------------------------------------------- disabled identity
\* The calls clients send while an identity stays disabled: no enable, no remove
DisabledCmds == {"query", "ident", "disable"}

\* A login page has been rendered (nut 1), the ident of a client with key idk
\* on nut 1 has created its identity and registered nut 2, and the client's
\* disable on nut 2 has been answered with HTTP 200 and nut 3: disableAsync
\* resolves without touching a record. http names the disabled identity.
DisabledInit ==
  \E idk \in Keys :
    /\ nutTable = (3 :> NutDBRecord(3, 1)) @@ (2 :> NutDBRecord(2, 1)) @@
                  (1 :> [NutDBRecord(1, None) EXCEPT
                           !.loggedIn = TRUE,
                           !.clientPrimaryIdentityPublicKey = idk])
    /\ userTable = <<newFromClientRequestInfo(idk, None)>>
    /\ nutCtr = 3
    /\ parent = (3 :> 2) @@ (2 :> 1) @@ (1 :> None)
    /\ hist = [NoHist EXCEPT !.consumed = {1, 2}, !.identDone = {1}]
    /\ req = [r \in Req |-> IdleReq]
    /\ poll = [p \in Poll |-> IdlePoll]
    /\ http = [pc |-> "disabled", idk |-> idk]

\* The server while the identity stays disabled, one SQRL API call at a time.
DisabledNext ==
  \/ LoginPage
  \/ Quiet /\ \E r \in Req, cmd \in DisabledCmds, ver \in Versions,
                   nut \in PresentableNuts, k \in ClientKeys :
                ReqStart(r, cmd, ver, nut, k[1], k[2])
  \/ \E r \in Req : ReqNutIssued(r)
  \/ \E r \in Req : ReqQueryFind(r)
  \/ \E r \in Req : ReqIdentFind(r)
  \/ \E r \in Req : ReqIdentUpdate(r)
  \/ \E r \in Req : ReqIdentInsert(r)
  \/ \E r \in Req : ReqIdentGetOrig(r)
  \/ \E r \in Req : ReqIdentMark(r)
  \/ \E r \in Req : Respond(r)

SpecDisabled == DisabledInit /\ [][DisabledNext]_vars

\* ---------------------------------------------------------------- properties
UnknownNutMessage == "Client presented unknown nut value"

\* the nut presented by the answered call rq that registered a follow-up nut
PresentedBy(rq) == parent[rq.issued]

\* C1: a nut is single-use. A call presenting a nut that an earlier call,
\* answered with HTTP 200, has presented is rejected with HTTP 400 and the
\* unknown-nut message. Checked under Spec; the code answers it with HTTP 200.
C1_NutSingleUse ==
  \A r \in Req :
    req[r].pc = "reply" /\ req[r].ver = 1 /\ req[r].validCmd /\ req[r].reuse
      => req[r].status = 400 /\ req[r].err = UnknownNutMessage

\* C2: of two overlapping calls presenting the same nut at most one is answered
\* with HTTP 200. A call during whose processing another call presenting the
\* same nut was answered with HTTP 200 is rejected with the unknown-nut
\* message. Checked under SpecRace; the code answers both with HTTP 200.
C2_RaceAtMostOneSuccess ==
  \A r \in Req :
    req[r].pc = "reply" /\ req[r].ver = 1 /\ req[r].validCmd /\ req[r].partnerOK
      => req[r].status = 400 /\ req[r].err = UnknownNutMessage

\* C3: a version-1 call whose nut the registry does not hold is answered with
\* HTTP 400 and the unknown-nut message, registers no follow-up nut and calls
\* none of the identity storage commands.
C3_UnknownNutRejected ==
  \A r \in Req :
    req[r].ver = 1 /\ ~req[r].known /\ req[r].pc # "idle"
      => /\ req[r].pc = "reply"
         /\ req[r].status = 400
         /\ req[r].err = UnknownNutMessage
         /\ req[r].issued = None
         /\ req[r].cmdCalled = "none"
         /\ req[r].nextNut \notin DOMAIN nutTable

\* a call presenting an unregistered nut has been answered
C3_Witness ==
  \E r \in Req :
    /\ req[r].pc = "reply" /\ req[r].ver = 1 /\ ~req[r].known
    /\ req[r].status = 400 /\ req[r].err = UnknownNutMessage
    /\ nutCtr > 0

\* C4: every nut record registered for a call carries the origin nut of its
\* conversation as originalLoginNut, however long the chain of calls from the
\* origin nut to it; an origin nut's record carries none. The reference is
\* one step deep: the record it names carries no originalLoginNut.
C4_AncestryInvariant ==
  \A n \in DOMAIN nutTable :
    IF parent[n] = None
    THEN nutTable[n].originalLoginNut = None
    ELSE /\ nutTable[n].originalLoginNut = Root(n)
         /\ Root(n) \in DOMAIN nutTable
         /\ nutTable[Root(n)].originalLoginNut = None

\* a nut registered for a call that presented a nut which is itself not an
\* origin nut: the chain origin -> q1 -> q2
C4_Witness ==
  \E n \in DOMAIN nutTable :
    /\ parent[n] # None
    /\ parent[parent[n]] # None
    /\ nutTable[n].originalLoginNut = parent[parent[n]]

\* C5: once an ident presented on a nut of a conversation (the origin nut or a
\* descendant) has been answered with HTTP 200, the record of the origin nut
\* has loggedIn set.
C5_IdentMarksOrigin ==
  \A o \in hist.identDone : o \in DOMAIN nutTable /\ nutTable[o].loggedIn

\* an ident presented on a descendant nut (the follow-up nut of an earlier call
\* on the origin nut) has been answered with HTTP 200
C5_Witness ==
  \E r \in Req :
    /\ req[r].pc = "reply" /\ req[r].status = 200 /\ req[r].cmdCalled = "ident"
    /\ parent[PresentedBy(req[r])] # None
    /\ parent[parent[PresentedBy(req[r])]] = None
    /\ Root(req[r].issued) \in hist.identDone
    /\ nutTable[Root(req[r].issued)].loggedIn

\* C6: when an ident is answered with HTTP 200, the record of the origin nut
\* holds the idk of the ident request as clientPrimaryIdentityPublicKey,
\* whether the identity was created, matched by its current key or matched by
\* its previous key. The code leaves the key undefined after a rotation.
C6_OriginBoundToIdk ==
  [][\A r \in Req :
       /\ InFlight(req[r]) /\ req[r].cmd = "ident"
       /\ req'[r].pc = "reply" /\ req'[r].status = 200
       => nutTable'[Root(req[r].nut)].clientPrimaryIdentityPublicKey = req[r].idk]_vars

C7_PollOutcomes ==
  \A p \in Poll :
    poll[p].pc = "reply" =>
      /\ poll[p].result = "404" <=> poll[p].seen = "none"
      /\ poll[p].seen = "new" => poll[p].result = "loggedIn:false"
      /\ poll[p].seen = "loggedIn" => poll[p].result = "loggedIn:true"

\* C8: a poll of an origin nut that arrives while no ident of the nut's
\* conversation has been answered is answered {loggedIn:false}; a poll of an
\* origin nut that arrives after a query and then an ident on the nut's chain
\* have been answered is answered {loggedIn:true, redirectTo}. Checked under
\* SpecPoll; the code does not answer the latter so after a key rotation.
C8_CrossDeviceLogin ==
  \A p \in Poll :
    poll[p].pc = "reply" =>
      /\ poll[p].phase = "before" => poll[p].result = "loggedIn:false"
      /\ poll[p].phase = "after" => poll[p].result = "loggedIn:true"

\* C9: a poll only reads. No step of a poll, whatever it finds of the nut,
\* changes a nut record or an identity record, or draws a nut.
C9_PollOnlyReads ==
  [][poll' # poll => UNCHANGED <<nutTable, userTable, nutCtr>>]_vars

\* polls of all three kinds can be answered: here one of a logged-in nut, with
\* the registry and the identity store populated
C9_Witness ==
  \E p \in Poll :
    /\ poll[p].pc = "reply" /\ poll[p].result = "loggedIn:true"
    /\ poll[p].seen = "loggedIn"
    /\ userTable # << >>
    /\ \E n \in DOMAIN nutTable : nutTable[n].loggedIn

\* C11: a version-1 call with a known nut and one of the five commands calls
\* the identity storage operation of its command and no other: the operation
\* is chosen when the registration of the follow-up nut has resolved, it is the
\* one named by cmd, and no later step of the call calls another. Rendering
\* the login page (getSqrlUrl) calls none.
C11_CommandDispatch ==
  [][/\ \A r \in Req :
          /\ req[r].pc = "nutIssued" /\ req'[r].pc # "nutIssued"
               => req'[r].cmdCalled = (IF req[r].cmd \in Commands
                                       THEN req[r].cmd ELSE "none")
          /\ req[r].pc \notin {"idle", "nutIssued"} /\ req'[r].pc # "idle"
               => req'[r].cmdCalled = req[r].cmdCalled
          /\ req[r].pc = "idle" /\ req'[r].pc # "idle"
               => /\ req'[r].cmdCalled = "none"
                  /\ req'[r].pc = "nutIssued"
                       <=> req'[r].ver = 1 /\ req'[r].known
     /\ nutCtr' # nutCtr /\ (\A r \in Req : req'[r].pc = req[r].pc)
          => req' = req /\ userTable' = userTable]_vars

\* a remove has been answered with HTTP 200 after removeAsync was called
C11_Witness ==
  \E r \in Req :
    /\ req[r].pc = "reply" /\ req[r].status = 200
    /\ req[r].cmdCalled = "remove"
    /\ req[r].ver = 1 /\ req[r].known /\ req[r].validCmd
\* C12: the signature gate. A request goes past the validator (the nut is looked
\* up) only if client and server are there, ids is made with the key of the idk
\* line over client+server and, with a pidk line, pids is made with that key
\* over the same string; every other request is answered with HTTP 400 without
\* a nut lookup, a nut registration or an identity storage operation. Checked
\* under SpecRequest; a request whose client block has a line without '=' is
\* answered with HTTP 500.
C12_SignatureGate ==
  \A r \in Req :
    LET s == http.shape
        signed == /\ s.client /\ s.server[1] # "absent" /\ s.idk # None
                  /\ s.ids = "valid"
                  /\ s.pidk # None => s.pids = "valid"
    IN req[r].pc # "idle" =>
         /\ req[r].lookedUp => signed
         /\ ~signed => /\ req[r].pc = "reply" /\ req[r].status = 400
                       /\ ~req[r].lookedUp /\ req[r].issued = None
                       /\ req[r].cmdCalled = "none"

\* C13: the missing-field matrix. A request that is valid (version 1, one of
\* the five commands, idk line, valid ids, valid pids when there is a pidk
\* line, a server parameter with a nut the registry knows, well-formed blocks,
\* no options) except that one of client, server, ids, idk, cmd, ver is left
\* out is answered with HTTP 400 and the message of the field left out.
C13_MissingFieldMatrix ==
  \A r \in Req :
    LET s == http.shape
        \* s is valid in every field but those in omitted
        valid(omitted) ==
          /\ "client" \notin omitted => s.client
          /\ "server" \notin omitted => s.server[1] \in {"url", "block"} /\ s.server[2] # None
          /\ "ids" \notin omitted => s.ids = "valid"
          /\ "idk" \notin omitted => s.idk # None
          /\ "cmd" \notin omitted => s.cmd \in Commands
          /\ "ver" \notin omitted => s.ver = "1"
          /\ s.pidk # None => s.pids = "valid"
          /\ ~s.junk /\ s.opt = << >>
        answer(msg) == req[r].status = 400 /\ req[r].err = msg
    IN req[r].pc = "reply" =>
         /\ valid({"client"}) /\ ~s.client => answer("Client field is required")
         /\ valid({"server"}) /\ s.server[1] = "absent"
              => answer("Server field is required")
         /\ valid({"ids"}) /\ s.ids = "absent"
              => answer("Missing ids= primary key signature field in SQRL request")
         /\ valid({"idk"}) /\ s.idk = None
              => answer("Missing primary identity public key field in SQRL request")
         /\ valid({"cmd"}) /\ s.cmd = Undefined /\ req[r].known
              => answer("Unknown SQRL command")
         /\ valid({"ver"}) /\ s.ver = Undefined
              => answer("This server only handles SQRL protocol revision 1")

\* a signed version-1 request without cmd line, presenting a known nut, has
\* been answered
C13_Witness ==
  \E r \in Req :
    /\ req[r].pc = "reply" /\ req[r].known /\ req[r].issued # None
    /\ http.shape.cmd = Undefined /\ http.shape.ver = "1"
    /\ http.shape.ids = "valid" /\ http.shape.idk # None /\ ~http.shape.junk
    /\ req[r].err = "Unknown SQRL command"

\* C14: version rejection. A request that the validator accepts (correctly
\* signed, well-formed blocks, a nut in the server parameter) and whose ver is
\* not 1 (another numeral, or no ver line) is answered with HTTP 400 and the
\* message 'This server only handles SQRL protocol revision 1' before the
\* registry is touched: the presented nut is not looked up, no nut is
\* registered and no identity storage operation is called.
C14_VersionRejection ==
  \A r \in Req :
    LET s == http.shape
        accepted == /\ s.client /\ s.idk # None /\ s.ids = "valid"
                    /\ s.pidk # None => s.pids = "valid"
                    /\ s.server[1] \in {"url", "block"} /\ s.server[2] # None
                    /\ ~s.junk /\ s.opt = << >>
    IN req[r].pc # "idle" /\ accepted /\ s.ver # "1" =>
         /\ req[r].pc = "reply" /\ req[r].status = 400
         /\ req[r].err = "This server only handles SQRL protocol revision 1"
         /\ ~req[r].lookedUp /\ req[r].issued = None /\ req[r].cmdCalled = "none"
         /\ req[r].nextNut \notin DOMAIN nutTable

\* a signed request with ver=2, presenting a nut the registry does not know,
\* has been answered
C14_Witness ==
  \E r \in Req :
    /\ req[r].pc = "reply" /\ req[r].ver = 2 /\ ~req[r].known
    /\ http.shape.ver = "2" /\ http.shape.ids = "valid" /\ http.shape.idk # None
    /\ http.shape.server = <<"block", UnregisteredNut>> /\ ~http.shape.junk

\* C15: option parsing. For a request that is valid apart from its opt= value:
\* when every token of the '~'-separated value is one of sqrlonly, hardlock,
\* cps, suk, the request is accepted and each of the four booleans of the
\* ClientRequestInfo is TRUE exactly when its own word is a token; when some
\* token is anything else, the request is answered with HTTP 400 and the
\* unknown-option message, without a nut lookup.
C15_OptionParsing ==
  \A r \in Req :
    LET s == http.shape
        o == s.opt
        parsed == parseAndValidateRequestFields(http.params)
        \* word w stands alone between two separators (or the ends) of o
        token(w) == \E i \in 1..Len(o) :
                      /\ o[i] = w
                      /\ i = 1 \/ o[i - 1] = "~"
                      /\ i = Len(o) \/ o[i + 1] = "~"
        \* every token of o is one of the four words
        listed == /\ \A i \in 1..Len(o) : o[i] \in OptionNames \cup {"~"}
                  /\ o[1] # "~" /\ o[Len(o)] # "~"
                  /\ \A i \in 1..(Len(o) - 1) : (o[i] = "~") # (o[i + 1] = "~")
    IN (/\ req[r].pc # "idle" /\ o # << >>
        /\ s.client /\ s.idk # None /\ s.ids = "valid" /\ s.pidk = None
        /\ s.ver = "1" /\ s.server = <<"url", 1>> /\ ~s.junk) =>
         IF listed
         THEN /\ parsed.ok /\ req[r].lookedUp
              /\ parsed.info.useSqrlIdentityOnly = token("sqrlonly")
              /\ parsed.info.hardLockSqrlUse = token("hardlock")
              /\ parsed.info.clientProvidedSession = token("cps")
              /\ parsed.info.returnSessionUnlockKey = token("suk")
         ELSE /\ ~parsed.ok /\ ~req[r].lookedUp
              /\ req[r].pc = "reply" /\ req[r].status = 400
              /\ req[r].err = "Unknown SQRL client option"

\* a request with opt=hardlock~suk has been accepted and answered with HTTP 200
C15_Witness ==
  \E r \in Req :
    /\ req[r].pc = "reply" /\ req[r].status = 200
    /\ http.shape.opt = <<"hardlock", "~", "suk">>
    /\ parseAndValidateRequestFields(http.params).info.returnSessionUnlockKey
    /\ ~parseAndValidateRequestFields(http.params).info.clientProvidedSession

\* C16: composition of the success reply. The body sent with HTTP 200 is, in
\* this order, the lines ver=1, nut=<next nut>, tif=<hex>, qry=<urlPath>?nut=
\* <next nut>, then url=<success redirect> exactly when the client sent cps and
\* the command is not query, then suk=<key> exactly when the client sent suk
\* and the storage operation returned a session unlock key, then can=<cancel
\* redirect> exactly when a cancel URL is configured; a CRLF follows every
\* line, the last one too. Checked under SpecReply.
C16_ReplyComposition ==
  http.pc = "sent" =>
    LET info == http.clientRequestInfo
        text == Decode(http.body).lines
        n == Len(text) \div 2
        line(i) == text[2 * i - 1]
        names == [i \in 1..n |-> line(i).name]
        url == info.clientProvidedSession /\ info.sqrlCommand # "query"
        suk == info.returnSessionUnlockKey /\ http.authInfo.sessionUnlockKey # None
        can == http.config.clientCancelAuthUrl # Undefined
        at(name) == CHOOSE i \in 1..n : names[i] = name
    IN /\ http.httpResponseCode = 200
       /\ Len(text) = 2 * n
       /\ \A i \in 1..n : line(i).kind = "pair" /\ text[2 * i] = CRLF
       /\ names = <<"ver", "nut", "tif", "qry">>
                    \o (IF url THEN <<"url">> ELSE << >>)
                    \o (IF suk THEN <<"suk">> ELSE << >>)
                    \o (IF can THEN <<"can">> ELSE << >>)
       /\ line(1).val = "1"
       /\ line(2).val = info.nextNut
       /\ line(4).val = QueryUrl(info.nextNut)
       /\ url => line(at("url")).val = http.config.clientLoginSuccessUrl
       /\ suk => line(at("suk")).val = http.authInfo.sessionUnlockKey
       /\ can => line(at("can")).val = http.config.clientCancelAuthUrl

\* the reply to a query of a client that sent cps and suk has been sent, with a
\* session unlock key and a cancel URL
C16_Witness ==
  /\ http.pc = "sent"
  /\ http.clientRequestInfo.sqrlCommand = "query"
  /\ http.clientRequestInfo.clientProvidedSession
  /\ http.clientRequestInfo.returnSessionUnlockKey
  /\ http.authInfo.sessionUnlockKey # None
  /\ http.config.clientCancelAuthUrl # Undefined
  /\ Len(Decode(http.body).lines) = 12

\* C17: composition of tif. For every command and every value 0..0x1FF of the
\* flags that the identity storage operation returned (the engine adds none
\* to a successful call), the tif= value of the reply is that value in
\* lowercase hexadecimal digits without prefix or padding, parsing it in base
\* 16 gives the value back, and the reply is sent with HTTP 200, also when
\* CommandFailed or IDDisabled is among the flags. Checked under SpecReply.
C17_TifComposition ==
  http.pc = "sent" =>
    LET tif == Decode(http.body).lines[5]
    IN /\ tif.name = "tif"
       /\ \A i \in 1..Len(tif.val) : \E k \in 1..16 : tif.val[i] = HexDigits[k]
       /\ Len(tif.val) >= 1 /\ (Len(tif.val) > 1 => tif.val[1] # "0")
       /\ ParseHex(tif.val) = http.authInfo.tifValues
       /\ http.httpResponseCode = 200

\* a reply whose flags include CommandFailed and IDDisabled and take three
\* hexadecimal digits has been sent
C17_Witness ==
  /\ http.pc = "sent"
  /\ HasFlag(http.authInfo.tifValues, CommandFailed)
  /\ HasFlag(http.authInfo.tifValues, IDDisabled)
  /\ Len(Decode(http.body).lines[5].val) = 3
  /\ http.httpResponseCode = 200

\* C18: client-error replies. Every reply sent with HTTP 400 (a request the
\* validator rejects, an unsupported version, an unknown nut, an unknown
\* command) carries a tif with CommandFailed and ClientFailure set. Checked
\* under SpecRequest; the code sends CommandFailed|TransientError.
C18_ClientErrorTif ==
  \A r \in Req :
    req[r].pc = "reply" /\ req[r].status = 400
      => HasFlag(req[r].tif, CommandFailed) /\ HasFlag(req[r].tif, ClientFailure)

\* C19: transient internal errors. When an operation of the registry or of
\* the identity storage that a call awaits rejects with an error that carries
\* no HTTP status, the call is answered with HTTP 500, tif =
\* CommandFailed|TransientError (0x60) and a nut drawn for this reply, which
\* is neither the presented nut nor the follow-up nut of the call nor any nut
\* of the registry. Checked under SpecFault.
C19_TransientError ==
  [][\A r \in Req :
       req[r].pc # "reply" /\ req'[r].pc = "reply" /\ req'[r].err = StorageFailure
         => /\ req'[r].status = 500
            /\ req'[r].tif = CommandFailed + TransientError
            /\ HasFlag(req'[r].tif, CommandFailed) /\ HasFlag(req'[r].tif, TransientError)
            /\ req'[r].minted = req[r].minted + (IF req[r].pc = "idle" THEN 2 ELSE 1)
            /\ req'[r].nextNut \notin {None, req[r].nut, req'[r].issued}
            /\ req'[r].nextNut \notin DOMAIN nutTable']_vars

\* the insertion of the new identity of an ident has failed after the
\* follow-up nut of the call was registered, and the call has been answered
C19_Witness ==
  \E r \in Req :
    /\ req[r].pc = "reply" /\ req[r].err = StorageFailure
    /\ req[r].cmdCalled = "ident" /\ req[r].issued # None
    /\ req[r].status = 500

\* C20: retry after an error. The nut carried by an error reply (HTTP 400 or
\* 500) can be presented by a retry: the registry holds a record of it, so the
\* call presenting it is not rejected as presenting an unknown nut. Checked
\* under SpecFault; the code never registers the nut of an error reply.
C20_RetryAfterError ==
  \A r \in Req :
    req[r].pc = "reply" /\ req[r].status \in {400, 500}
      => getNutRecord(req[r].nextNut) # NoNut

\* C21: error replies are normally framed. The body of every reply that is
\* not sent with HTTP 200 is a block of CRLF-terminated lines that the
\* name-value decoder accepts (no line without '='), with ver, nut, tif and
\* qry, and with the cause in an ask= field. Checked under SpecRequest; the
\* code sends the text of the error as fifth line, without 'ask='.
C21_ErrorReplyFramed ==
  \A r \in Req :
    req[r].pc = "reply" /\ req[r].status # 200 =>
      LET body == errorResponseBody(req[r].tif, req[r].nextNut, req[r].err)
          text == Decode(body).lines
          lines == LinesOf(body)
      IN /\ Len(text) = 2 * Len(lines)
         /\ \A i \in 1..Len(lines) : text[2 * i] = CRLF
         /\ CRLFFieldsOK(lines)
         /\ Prop(lines, "ver", Undefined) = "1"
         /\ Prop(lines, "nut", None) = req[r].nextNut
         /\ Prop(lines, "tif", << >>) = ToHex(req[r].tif)
         /\ Prop(lines, "qry", Undefined) = QueryUrl(req[r].nextNut)
         /\ Prop(lines, "ask", Undefined) # Undefined

\* C22: key rotation. When the identity store holds an identity with primary
\* key K_old (and none with K_new) and an ident with idk = K_new and pidk =
\* K_old is processed, the tif found for the call, which is the tif of its
\* reply, is PreviousIDMatch|CurrentIDMatch (0x3), and after the update the
\* identity has primary key K_new and K_old among its previous keys. Checked
\* under Spec; the code answers with tif 0x2.
C22_KeyRotation ==
  [][\A r \in Req :
       LET rq == req[r]
           primaries == {userTable[i].sqrlPrimaryIdentityPublicKey :
                           i \in 1..Len(userTable)}
       IN /\ (/\ rq.pc = "identFind" /\ req'[r].pc # "identFind"
              /\ rq.pidk \in primaries /\ rq.idk \notin primaries)
               => /\ req'[r].pc = "identUpdate"
                  /\ req'[r].tif = PreviousIDMatch + CurrentIDMatch
          /\ (rq.pc = "identUpdate" /\ req'[r].pc # "identUpdate")
               => \E i \in 1..Len(userTable') :
                    /\ userTable'[i].sqrlPrimaryIdentityPublicKey = rq.idk
                    /\ \E j \in 1..Len(userTable'[i].sqrlPreviousIdentityPublicKeys) :
                         userTable'[i].sqrlPreviousIdentityPublicKeys[j] = rq.pidk
          /\ (/\ rq.pc \in {"identUpdate", "identGetOrig", "identMark"}
              /\ req'[r].pc # "idle")
               => req'[r].tif = rq.tif]_vars

\* C23: rotation dedup. After any sequence of idents, rotations back and
\* forth between the same keys included, no identity record has the same key
\* more than once in its list of previous keys. Checked under Spec; the code
\* appends pidk at every rotation.
C23_RotationDedup ==
  \A i \in 1..Len(userTable) :
    LET previous == userTable[i].sqrlPreviousIdentityPublicKeys
    IN \A j, k \in 1..Len(previous) : previous[j] = previous[k] => j = k

\* C24: query is read-only with respect to identities. No step of the
\* processing of a query, whatever keys it carries, changes the identity
\* store; the only change to the registry is the new record of the follow-up
\* nut of the call. Checked under Spec.
C24_QueryReadOnly ==
  [][\A r \in Req :
       (\/ req[r].pc = "idle" /\ req'[r].pc # "idle" /\ req'[r].cmd = "query"
        \/ InFlight(req[r]) /\ req[r].cmd = "query" /\ req'[r] # req[r])
         => /\ userTable' = userTable
            /\ \/ nutTable' = nutTable
               \/ /\ req[r].pc = "nutIssued"
                  /\ req[r].nextNut \notin DOMAIN nutTable
                  /\ DOMAIN nutTable' = DOMAIN nutTable \cup {req[r].nextNut}
                  /\ \A n \in DOMAIN nutTable : nutTable'[n] = nutTable[n]]_vars

\* a query whose pidk is the primary key of a stored identity has been
\* answered with HTTP 200
C24_Witness ==
  \E r \in Req :
    /\ req[r].pc = "reply" /\ req[r].status = 200 /\ req[r].cmdCalled = "query"
    /\ req[r].tif = PreviousIDMatch
    /\ userTable # << >>

\* C25: ident is idempotent. (a) When an ident with keys idk, pidk on a valid
\* nut is answered, the answer is HTTP 200 and the identity store then holds
\* the identity so that the lookup with the same keys finds it under idk
\* (CurrentIDMatch). (b) An ident whose lookup finds the identity under idk
\* changes the identity store at no step. Hence the same ident performed again,
\* any number of times, succeeds and leaves the store as the first one left
\* it. Checked under Spec.
C25_IdentIdempotent ==
  [][\A r \in Req :
       LET rq == req[r] IN
       /\ (/\ InFlight(rq) /\ rq.cmd = "ident" /\ req'[r].pc = "reply")
            => /\ req'[r].status = 200
               /\ \A idk \in Keys, pidk \in Keys \cup {None} :
                    (idk = rq.idk /\ pidk = rq.pidk)
                      => (findUserByEitherKey(idk, pidk).tifValues = CurrentIDMatch)'
       /\ (/\ InFlight(rq) /\ rq.cmd = "ident" /\ req'[r] # rq
           /\ findUserByEitherKey(rq.idk, rq.pidk).tifValues = CurrentIDMatch)
            => userTable' = userTable]_vars

\* an ident with a previous key has been answered with HTTP 200 after its
\* lookup found the identity under idk: the identity store held it already
C25_Witness ==
  \E r \in Req :
    /\ req[r].pc = "reply" /\ req[r].status = 200 /\ req[r].cmdCalled = "ident"
    /\ req[r].tif = CurrentIDMatch
    /\ \E i \in 1..Len(userTable) :
         Len(userTable[i].sqrlPreviousIdentityPublicKeys) > 0

\* C26: nut records have a limited time to live. Every record of the registry
\* is eventually removed from it, after which its lookup finds none. Checked
\* under SpecLive; the code stores createdAt and never removes a record.
C26_NutsEvicted ==
  \A n \in 1..MaxNuts :
    (n \in DOMAIN nutTable) ~> (getNutRecord(n) = NoNut)

\* C27: URL factory. For every domain, port, path, domain extension x and nut
\* the result of SqrlUrlFactory.create is
\* sqrl://<domain>[:<port>]<path>?nut=<nut>[&x=<n>], where <path> is the
\* caller's path with a leading '/' added when it is missing (an empty path
\* stays empty) and one trailing '?' removed, and &x=<n> is there exactly when
\* <path> is not empty and x > 0, with n the smaller of x and the length of
\* <path>. Checked under SpecUrl.
C27_UrlFormat ==
  http.pc = "created" =>
    LET given == http.pathString
        x == http.domainExtension
        portPart == IF http.port # 0 THEN <<":">> \o NumberToString(http.port) ELSE << >>
        nut == IF http.serverNut.kind = "Buffer"
               THEN toSqrlBase64(http.serverNut.value) ELSE http.serverNut.value
    IN \E lead \in {<< >>, <<"/">>}, trail \in {<< >>, <<"?">>} :
         LET full == lead \o given
             path == SubSeq(full, 1, Len(full) - Len(trail))
             xPart == IF path # << >> /\ x > 0
                      THEN <<"&x=">> \o NumberToString(IF x <= Len(path) THEN x ELSE Len(path))
                      ELSE << >>
         IN /\ lead = <<"/">> <=> (given # << >> /\ given[1] # "/")
            /\ trail = <<"?">> <=> (full # << >> /\ full[Len(full)] = "?")
            /\ http.url = <<"sqrl://", http.domain>> \o portPart \o path
                            \o <<"?nut=">> \o nut \o xPart

\* create has been called with a port, a path without leading '/' and with a
\* trailing '?', and a domain extension longer than the path
C27_Witness ==
  /\ http.pc = "created"
  /\ http.port = 80
  /\ http.pathString = <<"a", "?">>
  /\ http.domainExtension = 5
  /\ http.url = <<"sqrl://", "foo.com", ":", "8", "0", "/", "a", "?nut=", "n", "1",
                  "&x=", "2">>

\* C28: nut rendering never produces padding. trimEqualsChars(s) is the
\* longest prefix of s that does not end in '=' (so '=' elsewhere is kept and
\* a string of '=' alone becomes empty), and trimming the result again gives
\* the result. toSqrlBase64 of a Buffer is the base64url encoding of its
\* bytes without its trailing '=': it holds no '=' at all. Checked under
\* SpecUrl.
C28_NoPadding ==
  /\ http.pc = "trimmed" =>
       LET s == http.s
           result == http.result
           EndsInEquals(str) == str # << >> /\ str[Len(str)] = "="
       IN /\ Len(result) <= Len(s)
          /\ result = SubSeq(s, 1, Len(result))
          /\ ~EndsInEquals(result)
          /\ \A k \in (Len(result) + 1)..Len(s) : EndsInEquals(SubSeq(s, 1, k))
          /\ trimEqualsChars(result) = result
  /\ http.pc = "encoded" =>
       LET padded == toBase64(http.buf)
           urlSafe == [i \in 1..Len(padded) |->
                         IF padded[i] = "+" THEN "-"
                         ELSE IF padded[i] = "/" THEN "_" ELSE padded[i]]
           result == http.result
       IN /\ \A i \in 1..Len(result) : result[i] # "="
          /\ Len(result) <= Len(urlSafe)
          /\ result = SubSeq(urlSafe, 1, Len(result))
          /\ \A i \in (Len(result) + 1)..Len(urlSafe) : urlSafe[i] = "="
          /\ Len(urlSafe) = 4 * ((Len(http.buf) + 2) \div 3)

\* toSqrlBase64 has been called with a Buffer of two bytes, whose base64 form
\* ends in '=', and has returned its three characters
C28_Witness ==
  /\ http.pc = "encoded"
  /\ http.buf = <<251, 255>>
  /\ toBase64(http.buf) = <<"+", "/", "8", "=">>
  /\ http.result = <<"-", "_", "8">>

\* C29: nut continuity. In the body of every reply sent with HTTP 200 the
\* value of nut=, the nut inside qry= (urlPath + '?nut=' + nut) and the nut
\* registered during the call are the same, and the registry finds that nut
\* when it is looked up. Checked under Spec.
C29_NutContinuity ==
  \A r \in Req :
    req[r].pc = "reply" /\ req[r].status = 200 =>
      LET clientRequestInfo ==
            [sqrlCommand |-> req[r].cmdCalled, nextNut |-> req[r].nextNut,
             clientProvidedSession |-> FALSE, returnSessionUnlockKey |-> FALSE]
          authInfo == [tifValues |-> req[r].tif, sessionUnlockKey |-> None]
          config == [clientLoginSuccessUrl |-> "/success",
                     clientCancelAuthUrl |-> Undefined]
          lines == LinesOf(authCompletionToResponseBody(clientRequestInfo, authInfo, config))
          nut == Prop(lines, "nut", None)
      IN /\ nut # None
         /\ nut = req[r].issued
         /\ Prop(lines, "qry", Undefined) = QueryUrl(req[r].issued)
         /\ getNutRecord(nut) # NoNut
         /\ getNutRecord(nut).nut = nut

\* an ident has been answered with HTTP 200 and the nut of its reply is in
\* the registry
C29_Witness ==
  \E r \in Req :
    /\ req[r].pc = "reply" /\ req[r].status = 200 /\ req[r].cmdCalled = "ident"
    /\ req[r].issued = req[r].nextNut
    /\ req[r].nextNut \in DOMAIN nutTable

\* C30: unknown commands are rejected at the parse boundary. While the server
\* processes a correctly signed request whose cmd is absent or is none of
\* query, ident, disable, enable, remove, no step of the call changes the
\* registry (no follow-up nut is registered), and the call is answered with
\* HTTP 400. Checked under SpecRequest; the code registers the follow-up nut
\* before the switch on the command throws.
C30_UnknownCommandRejected ==
  [][LET parsed == parseAndValidateRequestFields(http.params)
     IN (/\ http.pc = "request"
         /\ parsed.ok
         /\ parsed.info.sqrlCommand \notin Commands)
          => \A r \in Req :
               req'[r] # req[r]
                 => /\ nutTable' = nutTable
                    /\ req'[r].pc = "reply" => req'[r].status = 400]_vars

\* C31: remove is a terminal transition. Once a remove has been answered, a
\* later call that presents the follow-up nut of that remove's reply is not
\* honoured: it is answered with HTTP 400 and the unknown-nut message.
\* Checked under SpecRace, where a call can start while the reply of another
\* is still on its way; the code honours the nut as after any other command.
C31_RemoveTerminal ==
  [][\A r, q \in Req :
       (/\ req[r].pc = "reply" /\ req[r].status = 200 /\ req[r].cmdCalled = "remove"
        /\ req[q].pc = "idle" /\ req'[q].pc # "idle"
        /\ req'[q].ver = 1 /\ req'[q].nut = req[r].nextNut)
         => /\ req'[q].pc = "reply"
            /\ req'[q].status = 400
            /\ req'[q].err = UnknownNutMessage]_vars

\* C32: disabled state. After the disable of an identity has been answered
\* with HTTP 200 and while no enable is processed, every query or ident whose
\* lookup finds that identity is answered with a tif that has IDDisabled, and
\* no step of such an ident changes the identity store; a further disable is
\* answered with HTTP 200. Checked under SpecDisabled; disableAsync does
\* nothing and no code sets IDDisabled.
C32_DisabledState ==
  [][\A r \in Req :
       LET rq == req[r]
           authInfo == findUserByEitherKey(rq.idk, rq.pidk)
           disabled ==
             /\ authInfo.user.kind = "doc"
             /\ \/ authInfo.user.doc.sqrlPrimaryIdentityPublicKey = http.idk
                \/ \E i \in 1..Len(authInfo.user.doc.sqrlPreviousIdentityPublicKeys) :
                     authInfo.user.doc.sqrlPreviousIdentityPublicKeys[i] = http.idk
       IN /\ (/\ InFlight(rq) /\ rq.cmd \in {"query", "ident"}
              /\ req'[r].pc = "reply" /\ disabled)
               => HasFlag(req'[r].tif, IDDisabled)
          /\ (InFlight(rq) /\ rq.cmd = "ident" /\ req'[r] # rq /\ disabled)
               => userTable' = userTable
          /\ (InFlight(rq) /\ rq.cmd = "disable" /\ req'[r].pc = "reply")
               => req'[r].status = 200]_vars

\* C33: logged in is never taken back. Once the record of a nut has loggedIn
\* true, every later lookup of the nut finds a record with loggedIn true: no
\* step of any call, in any interleaving of overlapping calls on the same
\* conversation, removes the record or sets loggedIn to false. Checked under
\* SpecRace.
C33_LoggedInStable ==
  [][\A n \in DOMAIN nutTable :
       nutTable[n].loggedIn => (getNutRecord(n) # NoNut /\ getNutRecord(n).loggedIn)']_vars

\* an ident has been answered while another call on the same nut, answered
\* before, overlapped it, and the origin record of its conversation, marked by
\* an earlier ident, has loggedIn true
C33_Witness ==
  \E r \in Req :
    /\ req[r].pc = "reply" /\ req[r].status = 200 /\ req[r].cmdCalled = "ident"
    /\ req[r].partnerOK
    /\ Root(req[r].issued) \in hist.crossDone
    /\ nutTable[Root(req[r].issued)].loggedIn

\* C34: only an ident marks a record, and only an origin record. The loggedIn
\* of a nut record becomes true only in the step in which an ident that
\* presented the record's own nut, or a nut whose originalLoginNut is the
\* record's nut, stores its mark; no step of a query, disable, enable, remove,
\* poll, login page or ident of another conversation sets it, a new record
\* starts with loggedIn false, and no record with an originalLoginNut ever has
\* loggedIn true. Checked under SpecPoll.
C34_OnlyIdentMarks ==
  [][\A n \in DOMAIN nutTable' :
       /\ (n \notin DOMAIN nutTable) => ~nutTable'[n].loggedIn
       /\ nutTable'[n].loggedIn => nutTable'[n].originalLoginNut = None
       /\ (n \in DOMAIN nutTable /\ ~nutTable[n].loggedIn /\ nutTable'[n].loggedIn)
            => \E r \in Req :
                 /\ req[r].pc = "identMark" /\ req[r].cmd = "ident"
                 /\ req'[r].pc = "reply"
                 /\ \/ req[r].nut = n
                    \/ getNutRecord(req[r].nut).originalLoginNut = n]_vars

\* the record of an origin nut has been marked by an ident that presented a
\* follow-up nut of its conversation, whose record is not marked
C34_Witness ==
  \E r \in Req :
    /\ req[r].pc = "reply" /\ req[r].status = 200 /\ req[r].cmdCalled = "ident"
    /\ parent[req[r].issued] # Root(req[r].issued)
    /\ nutTable[Root(req[r].issued)].loggedIn
    /\ ~nutTable[parent[req[r].issued]].loggedIn

\* C35: primary-key uniqueness. In every state reached by calls that do not
\* overlap, no two identity records have the same primary identity public key.
\* Checked under Spec; an ident whose idk and pidk are the primary keys of two
\* records rewrites the record found under pidk to idk.
C35_PrimaryKeyUnique ==
  \A i, j \in 1..Len(userTable) :
    userTable[i].sqrlPrimaryIdentityPublicKey = userTable[j].sqrlPrimaryIdentityPublicKey
      => i = j

\* C36: overlapping idents of an unknown key. When an ident whose lookup found
\* no identity stores its new record, and the nut it presented is presented by
\* no other call, the identity store then holds exactly one record with the
\* primary key idk, whatever other calls overlap it. Checked under SpecRace;
\* two idents that both looked up before either inserted both insert.
C36_OverlappingIdentsOneRecord ==
  [][\A r \in Req :
       (/\ req[r].pc = "identInsert" /\ req'[r].pc # "identInsert"
        /\ ~req[r].reuse /\ ~req[r].partnerOK
        /\ \A q \in Req \ {r} : InFlight(req[q]) => req[q].nut # req[r].nut)
         => Cardinality({i \in 1..Len(userTable') :
                           userTable'[i].sqrlPrimaryIdentityPublicKey = req[r].idk}) = 1]_vars

\* C37: a logged-in nut names an identity. Whenever a nut record has loggedIn
\* true and a key bound to it, the identity store holds a record whose primary
\* key is that key, so that the poll of the nut finds the user. Checked under
\* Spec; a rotation of the identity's key in another conversation leaves the
\* old key in the nut record.
C37_LoggedInKeyResolves ==
  \A n \in DOMAIN nutTable :
    (nutTable[n].loggedIn /\ nutTable[n].clientPrimaryIdentityPublicKey # None)
      => FindDoc({nutTable[n].clientPrimaryIdentityPublicKey}) # NoUser

\* C38: a line without '=' is a parse error reported with HTTP 400. A request
\* whose client block, or whose server block, holds a line that is not blank
\* and has no '=' is answered with HTTP 400, like every request the validator
\* rejects. Checked under SpecRequest; the decoder throws a plain Error, which
\* has no httpStatusCode, and the reply is sent with HTTP 500.
C38_MalformedLineIs400 ==
  (/\ http.pc = "request"
   /\ http.params.client # << >> /\ http.params.server # << >>
   /\ \/ ~CRLFFieldsOK(Decode(http.params.client).lines)
      \/ /\ ~Decode(http.params.server).url
         /\ ~CRLFFieldsOK(Decode(http.params.server).lines))
    => \A r \in Req : req[r].pc = "reply" => req[r].status = 400

\* C39: name-value decoding. For every block in which each line that is not
\* blank has a name before its first '=', the decoder maps the name of each
\* line (of the line without surrounding white space, up to its first '=') to
\* all that follows that '=', the last line of a name deciding; the lines that
\* are blank change nothing, and when the names are distinct the lines in
\* reverse order give the same map. Decoding a reply the engine emitted gives
\* exactly the fields the engine emitted. Checked under SpecDecode; the error
\* reply of the engine has a line without '=' (C21), which the decoder rejects.
C39_Decoding ==
  http.pc = "decoded" =>
    LET result == http.result
        lines == SplitCRLF(http.text)
        stripped == [i \in 1..Len(lines) |-> Trim(lines[i])]
        content == {i \in 1..Len(lines) : stripped[i] # << >>}
        FirstEq(line) == CHOOSE k \in 1..Len(line) :
                           line[k] = "=" /\ \A j \in 1..(k - 1) : line[j] # "="
        NameOf(i) == SubSeq(stripped[i], 1, FirstEq(stripped[i]) - 1)
        ValueOf(i) == SubSeq(stripped[i], FirstEq(stripped[i]) + 1, Len(stripped[i]))
        wellFormed == \A i \in content :
                        /\ stripped[i][1] # "="
                        /\ \E k \in 1..Len(stripped[i]) : stripped[i][k] = "="
        distinct == \A i, j \in content : NameOf(i) = NameOf(j) => i = j
        reversed == [i \in 1..Len(lines) |-> lines[Len(lines) + 1 - i]]
        nonBlank == SelectSeq(lines, LAMBDA l : Trim(l) # << >>)
        emitted == LinesOf(http.body)
    IN /\ (http.from = "block" /\ wellFormed) =>
            /\ result.ok
            /\ DOMAIN result.props = {NameOf(i) : i \in content}
            /\ \A i \in content :
                 (\A j \in content : j > i => NameOf(j) # NameOf(i))
                   => result.props[NameOf(i)] = ValueOf(i)
            /\ parseCRLFSeparatedFields(JoinCRLF(nonBlank)) = result
            /\ distinct => parseCRLFSeparatedFields(JoinCRLF(reversed)) = result
       /\ http.from = "engine" =>
            /\ result.ok
            /\ DOMAIN result.props = {<<emitted[i].name>> : i \in 1..Len(emitted)}
            /\ \A i \in 1..Len(emitted) :
                 result.props[<<emitted[i].name>>]
                   = ValueChars(emitted[i].name, emitted[i].val)

\* C40: nut extraction. The nut under which the engine looks up the registry
\* is the nut of the decoded server parameter and of nothing else: the nut
\* query parameter of a SQRL URL, the nut line of a name-value block; a nut
\* line of the client block is not read. A request that passes the checks
\* before the extraction (client and server parameters, a client block that
\* decodes, idk, valid signatures) and whose server parameter yields no nut is
\* answered with HTTP 400 and the message of the server field before the
\* registry is touched. Checked under SpecRequest; a server block that has no
\* nut line and a line without '=' is answered with HTTP 500 (C38).
C40_NutExtraction ==
  \A r \in Req :
    LET s == http.shape
        extracts == /\ s.client /\ s.server[1] # "absent" /\ ~s.junk
                    /\ s.idk # None /\ s.ids = "valid"
                    /\ s.pidk # None => s.pids = "valid"
    IN /\ req[r].pc \notin {"idle", "reply"}
            => s.server[2] # None /\ req[r].nut = s.server[2]
       /\ (req[r].pc = "reply" /\ req[r].lookedUp) => s.server[2] # None
       /\ (req[r].pc = "reply" /\ extracts /\ s.server[2] = None)
            => /\ req[r].status = 400
               /\ req[r].err = "server= info from client is not either a QR-code URL with nut= query param or a server response with nut= field"
               /\ ~req[r].lookedUp /\ req[r].issued = None
               /\ req[r].cmdCalled = "none"

====
